---------------------------- MODULE Spec2Model ----------------------------
(***************************************************************************)
(* Memory-recall engine of ReflexEngine V3: the concept-association graph  *)
(* (SrgService), the Fibonacci decay and the recall pipeline               *)
(* (RecallWeaverService).                                                  *)
(*                                                                         *)
(* Representation choices                                                  *)
(*  - an optional field (concepts?, activationScore?, lastActivatedTurn?)  *)
(*    is a set with at most one element: {} is undefined, {x} is x;        *)
(*  - a score is a rational <<numerator, denominator>>, denominator > 0;   *)
(*  - a concept string is the sequence of its ':'-separated segments, so   *)
(*    <<"a">> is "a" and <<"a", "b">> is "a:b"; an atom type is a single   *)
(*    segment, and the graph key `${type}:${concept}` is <<type>> \o c;    *)
(*  - a JavaScript Map that is iterated is a sequence of entries in        *)
(*    insertion order.                                                     *)
(***************************************************************************)
EXTENDS Integers, Sequences, FiniteSets, TLC

VARIABLES
    memory,       \* the atom log handed to recall (session.messages)
    graph,        \* SrgService.graph
    isLoaded,     \* SrgService.isLoaded
    loadPending,  \* the loadGraph() started by the constructor is in flight
    stored,       \* the snapshot under key 'main' in IndexedDB (optional)
    saveTimeout,  \* a debounced save timer is pending
    fibCache,     \* fibCache of the recall module
    ret,          \* the last operation, its inputs and what it returned
    calls,        \* the trainOnTransition calls made so far, each with its position
    loadQueue,    \* the db.get requests of loadGraph in flight, oldest first
    turn,         \* the sendMessage call in progress: its position and its locals
    hookFibCache, \* fibCache of the useChat module
    clock,        \* the time, the save timers pending and the db.put calls made
    isHydrated,   \* useChat.isHydrated
    sessionStore, \* what the session store holds under 'reflex-session-state-v1'
    sessionLoad,  \* the position of the session load effect
    saveTimeoutRef,      \* useChat.saveTimeoutRef: the pending session save, with its session
    keyState,            \* App.keyState
    isLoading,           \* chat.isLoading
    isCognitionRunning,  \* App.isCognitionRunning.current
    cognitionInterval,   \* the live cognition interval with the values its callback closed over
    cyclesInFlight       \* the runCognitionCycle calls that have not returned, each with its history

\* the session persistence of useChat
hookVars == <<isHydrated, sessionStore, sessionLoad, saveTimeoutRef>>

\* the background cognition loop of App
appVars == <<keyState, isLoading, isCognitionRunning, cognitionInterval, cyclesInFlight>>

vars == <<memory, graph, isLoaded, loadPending, stored, saveTimeout, fibCache, ret,
          calls, loadQueue, turn, hookFibCache, clock, hookVars, appVars>>

-----------------------------------------------------------------------------
(* Program constants *)

STM_CAPACITY_OffByOne == 15 - 1

STM_CAPACITY == 15

LTM_RECALL_K == 5

AXIOM_RECALL_K == 3

FIB_LIMIT == 40

\* runCognitionCycle: if (history.length < 4) return null
MIN_HISTORY == 4

\* type KeyState
KeyStates == {"unknown", "validating", "ready", "needs_selection", "error"}

FOLLOW_UP_K == 10

\* the debounce delay of saveGraph, 1000 ms, in ticks of 500 ms
DEBOUNCE_TICKS == 2

(* Bounds of the model *)

MaxLive == 7          \* atoms with content in a log

FillersFrom == 1      \* the padding block may follow MaxLive - FillersFrom atoms

MaxTurn == 1          \* largest currentTurn passed to recall

MaxTotalWeight == 2   \* training stops at this edge weight beyond the loaded snapshot

MaxAtoms == 3         \* longest atom list passed to getFollowUpConcepts

MaxK == 2             \* largest topK passed to getFollowUpConcepts

MaxCalls == 2         \* trainOnTransition calls made while calls are tracked

MaxTurnsOld == 4      \* largest number of turns elapsed handed to the decay

MaxTurns == 2         \* sendMessage calls of a session

MaxChunks == 1        \* chunks of a streamed response

MaxInsights == 14     \* background insights of a session

MaxStoreWeight == 5   \* training stops at this total edge weight when snapshots are rewritten

MaxFibArg == 42       \* largest argument handed to fibonacci

MaxSessionLength == 3 \* atoms of a session that is saved and loaded

MaxMessages == 4      \* atoms of the log while the cognition loop runs

MaxCycles == 2        \* cognition cycles tracked at a time

MaxTime == 3          \* ticks of the clock during which calls are made

-----------------------------------------------------------------------------
(* Optional values *)

None == {}

Some(x) == {x}

OrElse(opt, default) == IF opt = {} THEN default ELSE CHOOSE x \in opt : TRUE

Min(a, b) == IF a <= b THEN a ELSE b

Range(s) == {s[i] : i \in DOMAIN s}

\* map.set(k, v) on a Map that is only looked up by key
MapSet(f, k, v) == [x \in (DOMAIN f) \cup {k} |-> IF x = k THEN v ELSE f[x]]

(* Rationals *)

Rat(n, d) == <<n, d>>

RatMul(a, b) == <<a[1] * b[1], a[2] * b[2]>>

RatLess(a, b) == a[1] * b[2] < b[1] * a[2]

RatEq(a, b) == a[1] * b[2] = b[1] * a[2]

RatMax(a, b) == IF RatLess(a, b) THEN b ELSE a

RatInt(n) == <<n, 1>>

RatZero == <<0, 1>>

-----------------------------------------------------------------------------
(* Concepts and atoms *)

ca == <<"a">>

cb == <<"b">>

cc == <<"c">>

cab == <<"a", "b">>

MakeAtom(uuid, type, text, concepts, activationScore, lastActivatedTurn) ==
    [uuid |-> uuid, type |-> type, text |-> text, concepts |-> concepts,
     activationScore |-> activationScore, lastActivatedTurn |-> lastActivatedTurn]

\* atom.concepts || []
ConceptsOf(atom) == OrElse(atom.concepts, <<>>)

\* `${type}:${concept}`
Key(type, concept) == <<type>> \o concept

\* followUpKey.split(':').slice(1).join(':')
FollowUpConceptOf(followUpKey) == Tail(followUpKey)

-----------------------------------------------------------------------------
(* fibonacci with its memo cache: returns the value and the cache after *)

\* a fibonacci that recurses on n itself
RECURSIVE fibonacci_NoLimit(_, _)
fibonacci_NoLimit(n, cache) ==
    IF n <= 1 THEN [value |-> 1, cache |-> cache]
    ELSE IF n \in DOMAIN cache THEN [value |-> cache[n], cache |-> cache]
    ELSE LET r1 == fibonacci_NoLimit(n - 1, cache)
             r2 == fibonacci_NoLimit(n - 2, r1.cache)
             result == r1.value + r2.value
         IN  [value |-> result, cache |-> MapSet(r2.cache, n, result)]

RECURSIVE fibonacci(_, _)
fibonacci(n, cache) ==
    IF n <= 1 THEN [value |-> 1, cache |-> cache]
    ELSE IF n \in DOMAIN cache THEN [value |-> cache[n], cache |-> cache]
    ELSE LET limitedN == Min(n, FIB_LIMIT)
             r1 == fibonacci(limitedN - 1, cache)
             r2 == fibonacci(limitedN - 2, r1.cache)
             result == r1.value + r2.value
         IN  [value |-> result, cache |-> MapSet(r2.cache, limitedN, result)]

\* the factor is 1 + 1 / fibValue
DecayedScore_Grows(score, fibValue) ==
    RatMax(Rat(1, 100), RatMul(score, Rat(fibValue + 1, fibValue)))

\* Math.max(0.01, decayedScore * (1 - decayFactor)) with decayFactor = 1 / fibValue
DecayedScore(score, fibValue) ==
    RatMax(Rat(1, 100), RatMul(score, Rat(fibValue - 1, fibValue)))

\* the score is decayed from turnsOld = 0 on
decay_FromZero(score, turnsOld, cache) ==
    LET fib == fibonacci(turnsOld + 2, cache)
    IN  IF turnsOld >= 0
        THEN [value |-> DecayedScore(score, fib.value), cache |-> fib.cache]
        ELSE [value |-> score, cache |-> cache]

\* the decay of one score that is turnsOld turns old: the value and the cache after
decay(score, turnsOld, cache) ==
    LET fib == fibonacci(turnsOld + 2, cache)
    IN  IF turnsOld > 0
        THEN [value |-> DecayedScore(score, fib.value), cache |-> fib.cache]
        ELSE [value |-> score, cache |-> cache]

\* one iteration of ltm.map(atom => ...): the scoring copy and the cache after
DecayAtom(atom, currentTurn, cache) ==
    LET lastActivated == OrElse(atom.lastActivatedTurn, 0)
        turnsOld == currentTurn - lastActivated
        score == OrElse(atom.activationScore, Rat(1, 1))
        decayed == decay(score, turnsOld, cache)
    IN  [atom |-> [atom EXCEPT !.activationScore = Some(decayed.value)],
         cache |-> decayed.cache]

RECURSIVE DecayLtm(_, _, _)
DecayLtm(ltm, currentTurn, cache) ==
    IF ltm = <<>> THEN [atoms |-> <<>>, cache |-> cache]
    ELSE LET first == DecayAtom(Head(ltm), currentTurn, cache)
             rest == DecayLtm(Tail(ltm), currentTurn, first.cache)
         IN  [atoms |-> <<first.atom>> \o rest.atoms, cache |-> rest.cache]

-----------------------------------------------------------------------------
(* The concept graph: a function from source keys to the ordered list of   *)
(* [key, weight] transitions.                                              *)

EmptyMap == [k \in {} |-> 0]

EmptyGraph == EmptyMap

GraphHas(g, key) == key \in DOMAIN g

IndexOfKey(entries, key) ==
    IF \E i \in DOMAIN entries : entries[i].key = key
    THEN CHOOSE i \in DOMAIN entries : entries[i].key = key
    ELSE 0

\* map.get(key) || 0
WeightOf(entries, key) ==
    IF IndexOfKey(entries, key) = 0 THEN 0 ELSE entries[IndexOfKey(entries, key)].weight

\* map.set(key, weight): an existing key keeps its place, a new one goes last
EntrySet(entries, key, weight) ==
    IF IndexOfKey(entries, key) = 0
    THEN Append(entries, [key |-> key, weight |-> weight])
    ELSE [entries EXCEPT ![IndexOfKey(entries, key)].weight = weight]

\* for (const [followUpKey, weight] of transitions.entries()) associations.set(...)
RECURSIVE AddTransitions(_, _)
AddTransitions(associations, transitions) ==
    IF transitions = <<>> THEN associations
    ELSE LET followUpConcept == FollowUpConceptOf(Head(transitions).key)
             weight == Head(transitions).weight
         IN  AddTransitions(
                 EntrySet(associations, followUpConcept,
                          WeightOf(associations, followUpConcept) + weight),
                 Tail(transitions))

\* for (const concept of concepts) of one atom
RECURSIVE AddConcepts(_, _, _, _)
AddConcepts(associations, type, concepts, g) ==
    IF concepts = <<>> THEN associations
    ELSE LET sourceKey == Key(type, Head(concepts))
             next == IF GraphHas(g, sourceKey)
                     THEN AddTransitions(associations, g[sourceKey])
                     ELSE associations
         IN  AddConcepts(next, type, Tail(concepts), g)

\* for (const atom of sourceAtoms)
RECURSIVE AddAtoms(_, _, _)
AddAtoms(associations, sourceAtoms, g) ==
    IF sourceAtoms = <<>> THEN associations
    ELSE AddAtoms(AddConcepts(associations, Head(sourceAtoms).type,
                              ConceptsOf(Head(sourceAtoms)), g),
                  Tail(sourceAtoms), g)

OriginalConcepts(sourceAtoms) ==
    UNION {Range(ConceptsOf(sourceAtoms[i])) : i \in DOMAIN sourceAtoms}

\* the original concepts are not deleted
DeleteOriginal_Skip(associations, originalConcepts) == associations

\* for (const concept of originalConcepts) associations.delete(concept)
DeleteOriginal(associations, originalConcepts) ==
    SelectSeq(associations, LAMBDA e : e.key \notin originalConcepts)

\* sort((a, b) => b[1] - a[1]): stable, descending by weight
RECURSIVE InsertByWeight(_, _)
InsertByWeight(sorted, e) ==
    IF sorted = <<>> THEN <<e>>
    ELSE IF Head(sorted).weight < e.weight THEN <<e>> \o sorted
    ELSE <<Head(sorted)>> \o InsertByWeight(Tail(sorted), e)

RECURSIVE SortByWeight(_, _)
SortByWeight(sorted, entries) ==
    IF entries = <<>> THEN sorted
    ELSE SortByWeight(InsertByWeight(sorted, Head(entries)), Tail(entries))

\* slice(0, k) for k >= 0
Slice(s, k) == SubSeq(s, 1, Min(k, Len(s)))

Associations(sourceAtoms, g) ==
    DeleteOriginal(AddAtoms(<<>>, sourceAtoms, g), OriginalConcepts(sourceAtoms))

\* the associations are cut without being sorted
getFollowUpConcepts_NoSort(sourceAtoms, topK, g) ==
    LET top == Slice(Associations(sourceAtoms, g), topK)
    IN  [i \in DOMAIN top |-> top[i].key]

getFollowUpConcepts(sourceAtoms, topK, g) ==
    LET top == Slice(SortByWeight(<<>>, Associations(sourceAtoms, g)), topK)
    IN  [i \in DOMAIN top |-> top[i].key]

-----------------------------------------------------------------------------
(* RecallWeaverService.recall *)

CountIn(concepts, set) == Len(SelectSeq(concepts, LAMBDA c : c \in set))

\* atom.concepts && atom.concepts.length > 0
HasConcepts(atom) == atom.concepts # None /\ Len(OrElse(atom.concepts, <<>>)) > 0

\* stm.flatMap(a => a.concepts || [])
RECURSIVE FlatConcepts(_)
FlatConcepts(atoms) ==
    IF atoms = <<>> THEN <<>>
    ELSE ConceptsOf(Head(atoms)) \o FlatConcepts(Tail(atoms))

\* a follow-up concept adds 1.0 instead of 2.0
ScoreMemory_WeakBoost(atom, expandedQueryConcepts, followUpConcepts) ==
    LET guard == expandedQueryConcepts # {} /\ HasConcepts(atom)
        concepts == ConceptsOf(atom)
        resonanceScore ==
            IF guard
            THEN CountIn(concepts, expandedQueryConcepts)
                 + CountIn(concepts, Range(followUpConcepts))
            ELSE 0
        weighted == IF atom.type = "subconscious_reflection"
                    THEN Rat(resonanceScore * 11, 10)
                    ELSE RatInt(resonanceScore)
    IN  [atom |-> atom,
         score |-> RatMul(weighted, OrElse(atom.activationScore, Rat(1, 1))),
         resonance |-> resonanceScore, threw |-> FALSE]

\* step 4, the .map callback on a non-axiom scoring copy
ScoreMemory(atom, expandedQueryConcepts, followUpConcepts) ==
    LET guard == expandedQueryConcepts # {} /\ HasConcepts(atom)
        threw == guard /\ atom.concepts = None
        concepts == ConceptsOf(atom)
        resonanceScore ==
            IF guard
            THEN CountIn(concepts, expandedQueryConcepts)
                 + 2 * CountIn(concepts, Range(followUpConcepts))
            ELSE 0
        weighted == IF atom.type = "subconscious_reflection"
                    THEN Rat(resonanceScore * 11, 10)
                    ELSE RatInt(resonanceScore)
    IN  IF resonanceScore = 0
        THEN [atom |-> atom, score |-> RatZero, resonance |-> 0, threw |-> threw]
        ELSE [atom |-> atom,
              score |-> RatMul(weighted, OrElse(atom.activationScore, Rat(1, 1))),
              resonance |-> resonanceScore, threw |-> threw]

\* the axiom score is not doubled
ScoreAxiom_NotDoubled(atom, stmConcepts) ==
    LET guard == Len(stmConcepts) > 0 /\ HasConcepts(atom)
        resonanceScore ==
            IF guard THEN CountIn(ConceptsOf(atom), Range(stmConcepts)) ELSE 0
    IN  [atom |-> atom,
         score |-> RatMul(RatInt(resonanceScore), OrElse(atom.activationScore, Rat(1, 1))),
         resonance |-> resonanceScore, threw |-> FALSE]

\* step 5, the .map callback on an axiom scoring copy
ScoreAxiom(atom, stmConcepts) ==
    LET guard == Len(stmConcepts) > 0 /\ HasConcepts(atom)
        threw == guard /\ atom.concepts = None
        resonanceScore ==
            IF guard THEN CountIn(ConceptsOf(atom), Range(stmConcepts)) * 2 ELSE 0
    IN  [atom |-> atom,
         score |-> RatMul(RatInt(resonanceScore), OrElse(atom.activationScore, Rat(1, 1))),
         resonance |-> resonanceScore, threw |-> threw]

\* an unstable sort: an item goes before the items of equal score
RECURSIVE InsertByScore_Unstable(_, _)
InsertByScore_Unstable(sorted, item) ==
    IF sorted = <<>> THEN <<item>>
    ELSE IF ~RatLess(item.score, Head(sorted).score) THEN <<item>> \o sorted
    ELSE <<Head(sorted)>> \o InsertByScore_Unstable(Tail(sorted), item)

\* sort((a, b) => b.score - a.score): stable, descending by score
RECURSIVE InsertByScore(_, _)
InsertByScore(sorted, item) ==
    IF sorted = <<>> THEN <<item>>
    ELSE IF RatLess(Head(sorted).score, item.score) THEN <<item>> \o sorted
    ELSE <<Head(sorted)>> \o InsertByScore(Tail(sorted), item)

RECURSIVE SortByScore(_, _)
SortByScore(sorted, items) ==
    IF items = <<>> THEN sorted
    ELSE SortByScore(InsertByScore(sorted, Head(items)), Tail(items))

\* the scoring copy is returned instead of the log atom
OriginalAtom_ScoringCopy(ltm, item) == item.atom

\* ltm.find(originalAtom => originalAtom.uuid === item.atom.uuid)!
OriginalAtom(ltm, item) ==
    ltm[CHOOSE i \in DOMAIN ltm :
            /\ ltm[i].uuid = item.atom.uuid
            /\ \A j \in DOMAIN ltm : ltm[j].uuid = item.atom.uuid => i <= j]

\* entries that scored zero are kept
TopItems_KeepZero(scored, k) == Slice(SortByScore(<<>>, scored), k)

\* the slice is missing
TopItems_NoSlice(scored, k) ==
    SortByScore(<<>>, SelectSeq(scored, LAMBDA item : RatLess(RatZero, item.score)))

\* .filter(item => item.score > 0).sort(...).slice(0, k)
TopItems(scored, k) ==
    Slice(SortByScore(<<>>, SelectSeq(scored, LAMBDA item : RatLess(RatZero, item.score))), k)

\* .map(item => ltm.find(...))
TopAtoms(scored, k, ltm) ==
    LET top == TopItems(scored, k)
    IN  [i \in DOMAIN top |-> OriginalAtom(ltm, top[i])]

\* memory.slice(-STM_CAPACITY)
StmOf(mem) == SubSeq(mem, IF Len(mem) > STM_CAPACITY THEN Len(mem) - STM_CAPACITY + 1 ELSE 1, Len(mem))

\* the archive is not cut off from the working set
LtmOf_WholeLog(mem) == mem

\* memory.slice(0, -STM_CAPACITY)
LtmOf(mem) == SubSeq(mem, 1, Len(mem) - STM_CAPACITY)

\* the whole of recall on a graph g and a memo cache; the intermediate lists
\* are kept in the result next to the two returned lists
recall(mem, currentTurn, g, cache) ==
    IF Len(mem) <= STM_CAPACITY
    THEN [early |-> TRUE, threw |-> FALSE, memories |-> <<>>, axioms |-> <<>>,
          stm |-> <<>>, ltm |-> <<>>, followUpConcepts |-> <<>>,
          scoredMemories |-> <<>>, scoredAxioms |-> <<>>, cache |-> cache]
    ELSE
    LET stm == StmOf(mem)
        ltm == LtmOf(mem)
        decayed == DecayLtm(ltm, currentTurn, cache)
        decayedLtm == decayed.atoms
        stmConcepts == FlatConcepts(stm)
        followUpConcepts == getFollowUpConcepts(stm, FOLLOW_UP_K, g)
        expandedQueryConcepts == Range(stmConcepts) \cup Range(followUpConcepts)
        generalPool == SelectSeq(decayedLtm, LAMBDA a : a.type # "axiom")
        axiomPool == SelectSeq(decayedLtm, LAMBDA a : a.type = "axiom")
        scoredMemories ==
            [i \in DOMAIN generalPool |->
                ScoreMemory(generalPool[i], expandedQueryConcepts, followUpConcepts)]
        scoredAxioms ==
            [i \in DOMAIN axiomPool |-> ScoreAxiom(axiomPool[i], stmConcepts)]
        threw == \/ \E i \in DOMAIN scoredMemories : scoredMemories[i].threw
                 \/ \E i \in DOMAIN scoredAxioms : scoredAxioms[i].threw
    IN  [early |-> FALSE, threw |-> threw,
         memories |-> IF threw THEN <<>> ELSE TopAtoms(scoredMemories, LTM_RECALL_K, ltm),
         axioms |-> IF threw THEN <<>> ELSE TopAtoms(scoredAxioms, AXIOM_RECALL_K, ltm),
         stm |-> stm, ltm |-> ltm, followUpConcepts |-> followUpConcepts,
         scoredMemories |-> scoredMemories, scoredAxioms |-> scoredAxioms,
         cache |-> decayed.cache]

-----------------------------------------------------------------------------
(* SrgService: loading and training *)

\* the body of loadGraph: db.get succeeds (ok) or throws; returns the fields after
\* a loadGraph whose catch block drops the graph in memory
loadGraph_ClearsOnFailure(g, loaded, snapshot, ok) ==
    IF ok
    THEN [graph |-> IF snapshot # None THEN OrElse(snapshot, g) ELSE g, isLoaded |-> TRUE]
    ELSE [graph |-> EmptyGraph, isLoaded |-> loaded]

loadGraph(g, loaded, snapshot, ok) ==
    IF ok
    THEN [graph |-> IF snapshot # None THEN OrElse(snapshot, g) ELSE g, isLoaded |-> TRUE]
    ELSE [graph |-> g, isLoaded |-> loaded]

\* if (!this.isLoaded) await this.loadGraph()
EnsureLoaded(g, loaded, snapshot, ok) ==
    IF loaded THEN [graph |-> g, isLoaded |-> loaded] ELSE loadGraph(g, loaded, snapshot, ok)

\* for (const tConcept of targetConcepts) transitions.set(targetKey, (get || 0) + 1)
RECURSIVE TrainTargets(_, _, _)
TrainTargets(transitions, targetType, targetConcepts) ==
    IF targetConcepts = <<>> THEN transitions
    ELSE LET targetKey == Key(targetType, Head(targetConcepts))
         IN  TrainTargets(EntrySet(transitions, targetKey, WeightOf(transitions, targetKey) + 1),
                          targetType, Tail(targetConcepts))

\* for (const sConcept of sourceConcepts)
RECURSIVE TrainSources(_, _, _, _, _)
TrainSources(g, sourceType, sourceConcepts, targetType, targetConcepts) ==
    IF sourceConcepts = <<>> THEN g
    ELSE LET sourceKey == Key(sourceType, Head(sourceConcepts))
             transitions == IF GraphHas(g, sourceKey) THEN g[sourceKey] ELSE <<>>
         IN  TrainSources(MapSet(g, sourceKey, TrainTargets(transitions, targetType, targetConcepts)),
                          sourceType, Tail(sourceConcepts), targetType, targetConcepts)

\* the synchronous part of trainOnTransition once both concept lists are known
Trained(g, sourceType, sourceConcepts, targetType, targetConcepts) ==
    IF Len(sourceConcepts) = 0 \/ Len(targetConcepts) = 0 THEN g
    ELSE TrainSources(g, sourceType, sourceConcepts, targetType, targetConcepts)

RECURSIVE SumWeights(_)
SumWeights(entries) ==
    IF entries = <<>> THEN 0 ELSE Head(entries).weight + SumWeights(Tail(entries))

RECURSIVE TotalOver(_, _)
TotalOver(g, keys) ==
    IF keys = {} THEN 0
    ELSE LET k == CHOOSE x \in keys : TRUE
         IN  SumWeights(g[k]) + TotalOver(g, keys \ {k})

TotalWeight(g) == TotalOver(g, DOMAIN g)

\* the weight the graph holds beyond the snapshot it was loaded from
TrainedWeight(g, loaded, snapshot) ==
    TotalWeight(g) - (IF loaded /\ snapshot # None THEN TotalWeight(OrElse(snapshot, g)) ELSE 0)

-----------------------------------------------------------------------------
(* Inputs *)

\* atoms with content that the caller appends to the log
LiveAtoms ==
    { MakeAtom(0, "user_message", "t1", Some(<<ca>>), Some(Rat(1, 1)), Some(0)),
      MakeAtom(0, "subconscious_reflection", "t2", Some(<<cc, cb, cc>>), Some(Rat(1, 2)), Some(1)),
      MakeAtom(0, "axiom", "t3", Some(<<ca, ca, cb>>), None, None) }

\* the atoms appended once the padding is in the log
RecentAtoms == {tpl \in LiveAtoms : tpl.type # "axiom"}

\* a response atom that is still empty (createAtom('model_response', '', ...)):
\* no concepts yet (odd k) or an empty concept list (even k)
Filler(uuid, k) ==
    MakeAtom(uuid, IF k % 2 = 1 THEN "model_response" ELSE "steward_note", "",
             IF k % 2 = 1 THEN None ELSE Some(<<>>), Some(Rat(1, 1)), Some(0))

Fillers(from, n) == [k \in 1..n |-> Filler(from + k, k)]

\* a full working set of padding, or one that is two atoms short of it
PadSizes == {STM_CAPACITY - 2, STM_CAPACITY}

\* a snapshot left by an earlier session
Snapshot1 ==
    Trained(Trained(EmptyGraph, "user_message", <<ca>>, "conscious_thought", <<cc, ca>>),
            "user_message", <<ca>>, "subconscious_reflection", <<cb, cb>>)

StoredSnapshots == {None, Some(Snapshot1)}

\* atoms of the association graph's callers
s0 == MakeAtom(0, "model_response", "s0", None, Some(Rat(1, 1)), Some(0))

s1 == MakeAtom(1, "user_message", "s1", Some(<<ca>>), Some(Rat(1, 1)), Some(0))

s2 == MakeAtom(2, "conscious_thought", "s2", Some(<<cb>>), Some(Rat(1, 1)), Some(0))

s3 == MakeAtom(3, "subconscious_reflection", "s3", Some(<<cab>>), Some(Rat(1, 1)), Some(0))

s4 == MakeAtom(4, "user_message", "s4", Some(<<cc>>), Some(Rat(1, 1)), Some(0))

TrainPairs == {<<s1, s2>>, <<s1, s3>>, <<s4, s2>>, <<s4, s1>>, <<s1, s0>>}

\* the transitions trained on the clock: both atoms carry their concepts
SavePairs == {<<s1, s2>>, <<s4, s2>>}

\* what extractConcepts may return for an atom without concepts
ExtractResults == {<<>>, <<cb>>}

QueryAtoms == {s1, s4}

\* the atom lists queried while snapshots are rewritten
StoreQueries == {<<s1>>, <<s4, s1>>}

AtomLists == UNION {[1..n -> QueryAtoms] : n \in 0..MaxAtoms}

\* activation scores: what the program stores (1.0, decayed values, the floor)
\* and what a session written by something else may hold
Scores == {Rat(1, 1), Rat(1, 2), Rat(1, 100), Rat(0, 1), Rat(-1, 2), Rat(3, 2)}

TurnsOld == (-1)..MaxTurnsOld

-----------------------------------------------------------------------------
(* State *)

HasFillers == \E i \in DOMAIN memory : memory[i].text = ""

LiveCount == Cardinality({i \in DOMAIN memory : memory[i].text # ""})

NoCall == [op |-> "none"]

\* no sendMessage call is in progress
Idle == [pc |-> "idle"]

\* time 0, no save timer set, no db.put made
InitClock ==
    [now |-> 0, timers |-> <<>>, callsAt |-> <<>>, savesAt |-> <<>>, writes |-> <<>>,
     unsaved |-> <<>>]

\* the page as React mounts it: nothing hydrated, the key not validated, no
\* interval running
InitPage ==
    /\ clock = InitClock
    /\ isHydrated = FALSE
    /\ sessionStore = None
    /\ sessionLoad = "pending"
    /\ saveTimeoutRef = None
    /\ keyState = "unknown"
    /\ isLoading = FALSE
    /\ isCognitionRunning = FALSE
    /\ cognitionInterval = None
    /\ cyclesInFlight = <<>>

InitService ==
    /\ InitPage
    /\ graph = EmptyGraph
    /\ isLoaded = FALSE
    /\ loadPending = TRUE
    /\ saveTimeout = FALSE
    /\ fibCache = EmptyMap
    /\ ret = NoCall
    /\ calls = <<>>
    /\ loadQueue = <<>>
    /\ turn = Idle
    /\ hookFibCache = EmptyMap

\* a fresh page: empty log, the stored snapshot is whatever an earlier session left
InitRecall ==
    /\ InitService
    /\ memory = <<>>
    /\ stored = Some(Snapshot1)

InitSrg ==
    /\ InitService
    /\ memory = <<>>
    /\ stored \in StoredSnapshots

\* a fresh page whose constructor has just asked for the stored snapshot
InitAsync ==
    /\ InitPage
    /\ memory = <<>>
    /\ graph = EmptyGraph
    /\ isLoaded = FALSE
    /\ loadPending = TRUE
    /\ stored \in StoredSnapshots
    /\ saveTimeout = FALSE
    /\ fibCache = EmptyMap
    /\ ret = NoCall
    /\ calls = <<>>
    /\ loadQueue = <<0>>
    /\ turn = Idle
    /\ hookFibCache = EmptyMap

-----------------------------------------------------------------------------
(* Actions *)

\* addAtom(createAtom(...)): the log grows by one atom with a fresh uuid
AddAtom(tpl) ==
    /\ LiveCount < MaxLive
    /\ memory' = Append(memory, [tpl EXCEPT !.uuid = Len(memory) + 1])
    /\ ret' = [op |-> "addAtom"]
    /\ UNCHANGED <<graph, isLoaded, loadPending, stored, saveTimeout, fibCache, calls, loadQueue, turn, hookFibCache, clock, hookVars, appVars>>

\* addAtoms([...]): a run of atoms without content
AddFillers(n) ==
    /\ ~HasFillers
    /\ IF n = STM_CAPACITY
       THEN LiveCount >= MaxLive - FillersFrom /\ LiveCount < MaxLive
       ELSE LiveCount \in 1..2
    /\ memory' = memory \o Fillers(Len(memory), n)
    /\ ret' = [op |-> "addAtoms"]
    /\ UNCHANGED <<graph, isLoaded, loadPending, stored, saveTimeout, fibCache, calls, loadQueue, turn, hookFibCache, clock, hookVars, appVars>>

\* the loadGraph() call of the constructor completes
ConstructorLoad(ok) ==
    /\ loadPending
    /\ LET after == loadGraph(graph, isLoaded, stored, ok)
       IN  /\ graph' = after.graph
           /\ isLoaded' = after.isLoaded
    /\ loadPending' = FALSE
    /\ ret' = [op |-> "loadGraph"]
    /\ UNCHANGED <<memory, stored, saveTimeout, fibCache, calls, loadQueue, turn, hookFibCache, clock, hookVars, appVars>>

\* recallWeaverService.recall(memory, currentTurn)
Recall(currentTurn, ok) ==
    LET after == IF Len(memory) <= STM_CAPACITY
                 THEN [graph |-> graph, isLoaded |-> isLoaded]
                 ELSE EnsureLoaded(graph, isLoaded, stored, ok)
        result == recall(memory, currentTurn, after.graph, fibCache)
    IN  /\ graph' = after.graph
        /\ isLoaded' = after.isLoaded
        /\ fibCache' = result.cache
        /\ memory' = memory
        /\ ret' = [op |-> "recall", memory |-> memory, currentTurn |-> currentTurn,
                   graph |-> after.graph, result |-> result]
        /\ UNCHANGED <<loadPending, stored, saveTimeout, calls, loadQueue, turn, hookFibCache, clock, hookVars, appVars>>

\* srgService.getFollowUpConcepts(sourceAtoms, topK)
GetFollowUpConcepts(sourceAtoms, topK, ok) ==
    LET after == EnsureLoaded(graph, isLoaded, stored, ok)
    IN  /\ graph' = after.graph
        /\ isLoaded' = after.isLoaded
        /\ ret' = [op |-> "getFollowUpConcepts", sourceAtoms |-> sourceAtoms, topK |-> topK,
                   graph |-> after.graph,
                   result |-> getFollowUpConcepts(sourceAtoms, topK, after.graph)]
        /\ UNCHANGED <<memory, loadPending, stored, saveTimeout, fibCache, calls, loadQueue, turn, hookFibCache, clock, hookVars, appVars>>

\* srgService.trainOnTransition(sourceAtom, targetAtom), run to completion
TrainOnTransition(sourceAtom, targetAtom, ok, sourceExtracted, targetExtracted) ==
    LET after == EnsureLoaded(graph, isLoaded, stored, ok)
        sourceConcepts == OrElse(sourceAtom.concepts, sourceExtracted)
        targetConcepts == OrElse(targetAtom.concepts, targetExtracted)
        noop == Len(sourceConcepts) = 0 \/ Len(targetConcepts) = 0
        trained == Trained(after.graph, sourceAtom.type, sourceConcepts,
                           targetAtom.type, targetConcepts)
    IN  /\ TrainedWeight(trained, after.isLoaded, stored) <= MaxTotalWeight
        /\ graph' = trained
        /\ isLoaded' = after.isLoaded
        /\ saveTimeout' = IF noop THEN saveTimeout ELSE TRUE
        /\ ret' = [op |-> "trainOnTransition", before |-> graph,
                   sourceType |-> sourceAtom.type, sourceConcepts |-> sourceConcepts,
                   targetType |-> targetAtom.type, targetConcepts |-> targetConcepts]
        /\ UNCHANGED <<memory, loadPending, stored, fibCache, calls, loadQueue, turn, hookFibCache, clock, hookVars, appVars>>

-----------------------------------------------------------------------------
(* trainOnTransition calls in flight: a call is suspended while its        *)
(* loadGraph or an extractConcepts is pending and runs between two awaits  *)
(* without interruption.                                                   *)

\* a call as it is made: pc "load" until its own loadGraph has completed
NewCall(sourceAtom, targetAtom) ==
    [sourceType |-> sourceAtom.type, targetType |-> targetAtom.type,
     sourceConcepts |-> sourceAtom.concepts, targetConcepts |-> targetAtom.concepts,
     pc |-> "load", loadFailed |-> FALSE]

\* the call from line 197 to its next await or to its end, on graph g
Advance(call, g) ==
    IF call.sourceConcepts = None
    THEN [call |-> [call EXCEPT !.pc = "extractSource"], graph |-> g, saved |-> FALSE]
    ELSE IF call.targetConcepts = None
    THEN [call |-> [call EXCEPT !.pc = "extractTarget"], graph |-> g, saved |-> FALSE]
    ELSE LET sourceConcepts == OrElse(call.sourceConcepts, <<>>)
             targetConcepts == OrElse(call.targetConcepts, <<>>)
         IN  [call |-> [call EXCEPT !.pc = "done"],
              graph |-> Trained(g, call.sourceType, sourceConcepts,
                                call.targetType, targetConcepts),
              saved |-> Len(sourceConcepts) > 0 /\ Len(targetConcepts) > 0]

\* srgService.trainOnTransition(sourceAtom, targetAtom) is called: it runs
\* to its first await
StartTrain(sourceAtom, targetAtom) ==
    /\ Len(calls) < MaxCalls
    /\ IF isLoaded
       THEN LET next == Advance(NewCall(sourceAtom, targetAtom), graph)
            IN  /\ calls' = Append(calls, next.call)
                /\ graph' = next.graph
                /\ saveTimeout' = (saveTimeout \/ next.saved)
                /\ loadQueue' = loadQueue
       ELSE /\ calls' = Append(calls, NewCall(sourceAtom, targetAtom))
            /\ loadQueue' = Append(loadQueue, Len(calls) + 1)
            /\ UNCHANGED <<graph, saveTimeout>>
    /\ ret' = [op |-> "startTrain"]
    /\ UNCHANGED <<memory, isLoaded, loadPending, stored, fibCache, turn, hookFibCache, hookVars, appVars>>

\* the oldest db.get completes or throws: loadGraph finishes and the call
\* that awaited it (0: the constructor) goes on
LoadComplete(ok) ==
    /\ loadQueue # <<>>
    /\ LET owner == Head(loadQueue)
           after == loadGraph(graph, isLoaded, stored, ok)
       IN  /\ isLoaded' = after.isLoaded
           /\ IF owner = 0
              THEN /\ graph' = after.graph
                   /\ loadPending' = FALSE
                   /\ UNCHANGED <<calls, saveTimeout>>
              ELSE LET next == Advance([calls[owner] EXCEPT !.loadFailed = ~ok], after.graph)
                   IN  /\ calls' = [calls EXCEPT ![owner] = next.call]
                       /\ graph' = next.graph
                       /\ saveTimeout' = (saveTimeout \/ next.saved)
                       /\ UNCHANGED loadPending
    /\ loadQueue' = Tail(loadQueue)
    /\ ret' = [op |-> "loadGraph"]
    /\ UNCHANGED <<memory, stored, fibCache, turn, hookFibCache, hookVars, appVars>>

\* the extractConcepts a call awaits returns
ExtractDone(id, concepts) ==
    /\ id \in DOMAIN calls
    /\ calls[id].pc \in {"extractSource", "extractTarget"}
    /\ LET got == IF calls[id].pc = "extractSource"
                  THEN [calls[id] EXCEPT !.sourceConcepts = Some(concepts)]
                  ELSE [calls[id] EXCEPT !.targetConcepts = Some(concepts)]
           next == Advance(got, graph)
       IN  /\ calls' = [calls EXCEPT ![id] = next.call]
           /\ graph' = next.graph
           /\ saveTimeout' = (saveTimeout \/ next.saved)
    /\ ret' = [op |-> "extractConcepts"]
    /\ UNCHANGED <<memory, isLoaded, loadPending, stored, fibCache, loadQueue, turn, hookFibCache, hookVars, appVars>>

\* the debounced save fires: db.put stores the graph or throws
SaveTimer(ok) ==
    /\ saveTimeout
    /\ saveTimeout' = FALSE
    /\ stored' = IF ok THEN Some(graph) ELSE stored
    /\ ret' = [op |-> "saveGraph"]
    /\ UNCHANGED <<memory, graph, isLoaded, loadPending, fibCache, calls, loadQueue, turn, hookFibCache, hookVars, appVars>>

\* the decay step applied to one score at two ages, one after the other
Decay(score, t1, t2) ==
    LET d1 == decay(score, t1, fibCache)
        d2 == decay(score, t2, d1.cache)
    IN  /\ fibCache' = d2.cache
        /\ ret' = [op |-> "decay", score |-> score, t1 |-> t1, t2 |-> t2,
                   d1 |-> d1.value, d2 |-> d2.value]
        /\ UNCHANGED <<memory, graph, isLoaded, loadPending, stored, saveTimeout,
                       calls, loadQueue, turn, hookFibCache, clock, hookVars, appVars>>

-----------------------------------------------------------------------------
(* fibonacci called on its own *)

\* arguments on both sides of both guards
FibArgs == {-1, 0, 1, 2, 3, FIB_LIMIT - 1, FIB_LIMIT} \cup ((FIB_LIMIT + 1)..MaxFibArg)

\* fibonacci(n) of the recall module, on its fibCache
Fibonacci(n) ==
    /\ \E result \in {fibonacci(n, fibCache)} :
           /\ fibCache' = result.cache
           /\ ret' = [op |-> "fibonacci", n |-> n, value |-> result.value]
    /\ UNCHANGED <<memory, graph, isLoaded, loadPending, stored, saveTimeout, calls,
                   loadQueue, turn, hookFibCache, clock, hookVars, appVars>>

\* fibonacci(n) of the chat hook, on its own fibCache
HookFibonacci(n) ==
    /\ \E result \in {fibonacci(n, hookFibCache)} :
           /\ hookFibCache' = result.cache
           /\ ret' = [op |-> "fibonacci", n |-> n, value |-> result.value]
    /\ UNCHANGED <<memory, graph, isLoaded, loadPending, stored, saveTimeout, calls,
                   loadQueue, turn, fibCache, clock, hookVars, appVars>>

-----------------------------------------------------------------------------
(* SrgService on a clock: the debounced save of saveGraph *)

\* the pending timer is left running
\* if (this.saveTimeout) clearTimeout(this.saveTimeout): the timer set last is
\* cancelled if it is still pending
clearTimeout(timers) ==
    IF timers = <<>> THEN <<>> ELSE SubSeq(timers, 1, Len(timers) - 1)

\* a saveGraph that leaves a pending timer to run at its own deadline
saveGraph_Leading(timers, now) ==
    IF timers = <<>> THEN <<now + DEBOUNCE_TICKS>> ELSE timers

\* saveGraph(): the timers pending after it, by their deadlines
saveGraph(timers, now) == Append(clearTimeout(timers), now + DEBOUNCE_TICKS)

\* the call that reached its end in this step, if any
Completed(before, after) ==
    {id \in DOMAIN after : /\ after[id].pc = "done"
                           /\ id \in DOMAIN before => before[id].pc # "done"}

\* the call ended with this.saveGraph(), not at the return of line 200
Saves(call) ==
    /\ Len(OrElse(call.sourceConcepts, <<>>)) > 0
    /\ Len(OrElse(call.targetConcepts, <<>>)) > 0

\* the clock after a step of the service at the time clock.now; loaded is
\* this.graph as the step's loadGraph, if any, left it. clock.unsaved holds the
\* times of the trainings whose increments are in this.graph and not in the
\* stored snapshot: none is left when the load made this.graph the snapshot.
Stamped(before, after, loaded) ==
    LET made == Len(after) > Len(before)
        saved == \E id \in Completed(before, after) : Saves(after[id])
        kept == IF Some(loaded) = stored THEN <<>> ELSE clock.unsaved
    IN  [clock EXCEPT
            !.callsAt = IF made THEN Append(@, clock.now) ELSE @,
            !.savesAt = IF saved THEN Append(@, clock.now) ELSE @,
            !.timers = IF saved THEN saveGraph(@, clock.now) ELSE @,
            !.unsaved = IF saved THEN Append(kept, clock.now) ELSE kept]

TimedStartTrain(sourceAtom, targetAtom) ==
    /\ clock.now <= MaxTime
    /\ StartTrain(sourceAtom, targetAtom)
    /\ clock' = Stamped(calls, calls', graph)

TimedLoadComplete(ok) ==
    /\ LoadComplete(ok)
    /\ clock' = Stamped(calls, calls', loadGraph(graph, isLoaded, stored, ok).graph)

\* the timer callback runs when its delay has passed
TimedSaveTimer(ok) ==
    /\ clock.timers # <<>>
    /\ Head(clock.timers) <= clock.now
    /\ SaveTimer(ok)
    /\ clock' = [clock EXCEPT
                    !.timers = Tail(@),
                    !.writes = Append(@, [at |-> clock.now, graph |-> graph, ok |-> ok]),
                    !.unsaved = IF ok THEN <<>> ELSE @]

\* 500 ms pass; a timer that is due runs first
Tick ==
    /\ clock.now < MaxTime \/ clock.timers # <<>>
    /\ \A i \in DOMAIN clock.timers : clock.timers[i] > clock.now
    /\ clock' = [clock EXCEPT !.now = @ + 1]
    /\ ret' = [op |-> "tick"]
    /\ UNCHANGED <<memory, graph, isLoaded, loadPending, stored, saveTimeout, fibCache,
                   calls, loadQueue, turn, hookFibCache, hookVars, appVars>>

-----------------------------------------------------------------------------
(* useChat: the session log through the turns of sendMessage *)

\* createAtom(type, text, role, turnCount, { concepts })
createAtom(uuid, type, text, turnCount, concepts) ==
    MakeAtom(uuid, type, text, concepts, Some(Rat(1, 1)), Some(turnCount))

\* prev.messages.map(atom => ...) of applyActivationDecay, with the cache after
RECURSIVE applyActivationDecay(_, _, _)
applyActivationDecay(messages, currentTurn, cache) ==
    IF messages = <<>> THEN [atoms |-> <<>>, cache |-> cache]
    ELSE LET atom == Head(messages)
             turnsOld == currentTurn - OrElse(atom.lastActivatedTurn, 0)
             decayed == decay(OrElse(atom.activationScore, Rat(1, 1)), turnsOld, cache)
             rest == applyActivationDecay(Tail(messages), currentTurn, decayed.cache)
         IN  [atoms |-> <<[atom EXCEPT !.activationScore = Some(decayed.value)]>> \o rest.atoms,
              cache |-> rest.cache]

\* a reactivation that resets the score and leaves the turn of activation
reactivateAtoms_KeepsTurn(messages, uuidSet, turnNo) ==
    [i \in DOMAIN messages |->
        IF messages[i].uuid \in uuidSet
        THEN [messages[i] EXCEPT !.activationScore = Some(Rat(1, 1))]
        ELSE messages[i]]

\* reactivation adds 1.0 to the score
reactivateAtoms_AddsOne(messages, uuidSet, turnNo) ==
    [i \in DOMAIN messages |->
        IF messages[i].uuid \in uuidSet
        THEN [messages[i] EXCEPT
                 !.activationScore = Some(<<OrElse(@, Rat(1, 1))[1] + OrElse(@, Rat(1, 1))[2],
                                            OrElse(@, Rat(1, 1))[2]>>),
                 !.lastActivatedTurn = Some(turnNo)]
        ELSE messages[i]]

\* every atom of the log is reactivated
reactivateAtoms_All(messages, uuidSet, turnNo) ==
    [i \in DOMAIN messages |->
        [messages[i] EXCEPT !.activationScore = Some(Rat(1, 1)),
                            !.lastActivatedTurn = Some(turnNo)]]

\* prev.messages.map(m => uuidSet.has(m.uuid) ? {...m, activationScore: 1.0, ...} : m)
reactivateAtoms(messages, uuidSet, turnNo) ==
    [i \in DOMAIN messages |->
        IF messages[i].uuid \in uuidSet
        THEN [messages[i] EXCEPT !.activationScore = Some(Rat(1, 1)),
                                 !.lastActivatedTurn = Some(turnNo)]
        ELSE messages[i]]

\* m.cognitiveTrace || []
TraceOf(atom) == IF "cognitiveTrace" \in DOMAIN atom THEN atom.cognitiveTrace ELSE <<>>

\* createAtom(type, text, role, turn, {..., cognitiveTrace})
WithTrace(atom, trace) == atom @@ [cognitiveTrace |-> trace]

\* the uuid of the k-th thought made for the response atom uuid: distinct
\* from every uuid of the log
TraceUuid(uuid, k) == 0 - (4 * uuid + k)

\* axiomAtom, an atom or null, as the list of what is pushed
Pushed(axiomAtom) == IF axiomAtom = None THEN <<>> ELSE <<CHOOSE a \in axiomAtom : TRUE>>

\* the final update appends the axiom to the log itself
PushAxiom_ToLog(messages, modelResponseId, axiomAtom) ==
    messages \o Pushed(axiomAtom)

\* if (axiomAtom) updatedTrace.push(axiomAtom), on the response atom
PushAxiom(messages, modelResponseId, axiomAtom) ==
    [i \in DOMAIN messages |->
        IF messages[i].uuid = modelResponseId
        THEN [cognitiveTrace |-> TraceOf(messages[i]) \o Pushed(axiomAtom)] @@ messages[i]
        ELSE messages[i]]

\* the response atom is found by its type
SetResponse_ByType(messages, modelResponseId, text, concepts) ==
    [i \in DOMAIN messages |->
        IF messages[i].type = "model_response"
        THEN [messages[i] EXCEPT !.text = text, !.concepts = concepts]
        ELSE messages[i]]

\* prev.messages.map(m => m.uuid === modelResponseId ? {...m, text, concepts} : m)
SetResponse(messages, modelResponseId, text, concepts) ==
    [i \in DOMAIN messages |->
        IF messages[i].uuid = modelResponseId
        THEN [messages[i] EXCEPT !.text = text, !.concepts = concepts]
        ELSE messages[i]]

\* messages.filter(m => m.type === 'user_message').length
UserCount(messages) == Cardinality({i \in DOMAIN messages : messages[i].type = "user_message"})

InsightCount(messages) == Cardinality({i \in DOMAIN messages : messages[i].type = "steward_note"})

\* accumulatedText after n chunks
StreamText(n) == IF n = 0 THEN "" ELSE <<"r", "rr", "rrr", "rrrr">>[n]

\* what extractConcepts returns for the user's message
UserConcepts == {<<ca>>, <<cb>>}

\* sendMessage up to its first await: the stored scores are decayed
SendMessage ==
    /\ turn.pc = "idle"
    /\ UserCount(memory) < MaxTurns
    /\ LET currentTurn == UserCount(memory) + 1
           decayed == applyActivationDecay(memory, currentTurn, hookFibCache)
       IN  /\ memory' = decayed.atoms
           /\ hookFibCache' = decayed.cache
           /\ turn' = [pc |-> "extractUser", currentTurn |-> currentTurn, messages |-> memory]
           /\ ret' = [op |-> "applyActivationDecay", before |-> memory,
                      currentTurn |-> currentTurn]
    /\ UNCHANGED <<graph, isLoaded, loadPending, stored, saveTimeout, fibCache, calls, loadQueue,
                   clock, hookVars, appVars>>

\* extractConcepts(message) returns: the user atom is created and added
AddUserAtom(userConcepts) ==
    /\ turn.pc = "extractUser"
    /\ LET userAtom == createAtom(Len(memory) + 1, "user_message", "m", turn.currentTurn,
                                  Some(userConcepts))
       IN  /\ memory' = Append(memory, userAtom)
           /\ turn' = [pc |-> "recall", currentTurn |-> turn.currentTurn,
                       messages |-> turn.messages, userAtom |-> userAtom]
    /\ ret' = [op |-> "addAtom", before |-> memory]
    /\ UNCHANGED <<graph, isLoaded, loadPending, stored, saveTimeout, fibCache, calls,
                   loadQueue, hookFibCache, clock, hookVars, appVars>>

\* recall(allHistory, currentTurn) returns and the recalled atoms are reactivated
RecallAndReactivate(ok) ==
    /\ turn.pc = "recall"
    /\ LET allHistory == turn.messages \o <<turn.userAtom>>
           after == IF Len(allHistory) <= STM_CAPACITY
                    THEN [graph |-> graph, isLoaded |-> isLoaded]
                    ELSE EnsureLoaded(graph, isLoaded, stored, ok)
       IN  \E result \in {recall(allHistory, turn.currentTurn, after.graph, fibCache)} :
           LET uuids == {result.memories[i].uuid : i \in DOMAIN result.memories}
                            \cup {result.axioms[i].uuid : i \in DOMAIN result.axioms}
           IN  /\ graph' = after.graph
               /\ isLoaded' = after.isLoaded
               /\ fibCache' = result.cache
               /\ memory' = IF result.threw THEN memory
                             ELSE reactivateAtoms(memory, uuids, turn.currentTurn)
               /\ turn' = IF result.threw THEN Idle ELSE [turn EXCEPT !.pc = "conscious"]
               /\ ret' = IF result.threw THEN [op |-> "recallThrew", before |-> memory]
                          ELSE [op |-> "reactivateAtoms", before |-> memory, uuids |-> uuids,
                                currentTurn |-> turn.currentTurn, axioms |-> result.axioms]
    /\ UNCHANGED <<loadPending, stored, saveTimeout, calls, loadQueue, hookFibCache, clock, hookVars, appVars>>

\* the conscious thought is generated and the graph trained on user -> thought
Conscious(consciousConcepts, ok) ==
    /\ turn.pc = "conscious"
    /\ LET after == EnsureLoaded(graph, isLoaded, stored, ok)
           userConcepts == ConceptsOf(turn.userAtom)
           noop == Len(userConcepts) = 0 \/ Len(consciousConcepts) = 0
       IN  /\ graph' = Trained(after.graph, "user_message", userConcepts,
                               "conscious_thought", consciousConcepts)
           /\ isLoaded' = after.isLoaded
           /\ saveTimeout' = IF noop THEN saveTimeout ELSE TRUE
    /\ turn' = [pc |-> "subconscious", currentTurn |-> turn.currentTurn,
                messages |-> turn.messages, userAtom |-> turn.userAtom,
                consciousConcepts |-> consciousConcepts]
    /\ ret' = [op |-> "conscious", before |-> memory]
    /\ UNCHANGED <<memory, loadPending, stored, fibCache, calls, loadQueue, hookFibCache, clock, hookVars, appVars>>

\* the reflection is generated, the graph trained on thought -> reflection and
\* the empty response atom added
Subconscious(subconsciousConcepts, ok) ==
    /\ turn.pc = "subconscious"
    /\ LET after == EnsureLoaded(graph, isLoaded, stored, ok)
           noop == Len(turn.consciousConcepts) = 0 \/ Len(subconsciousConcepts) = 0
           uuid == Len(memory) + 1
           consciousAtom1 == createAtom(TraceUuid(uuid, 1), "conscious_thought", "t",
                                        turn.currentTurn, Some(turn.consciousConcepts))
           subconsciousAtom == createAtom(TraceUuid(uuid, 2), "subconscious_reflection", "r",
                                          turn.currentTurn, Some(subconsciousConcepts))
           finalResponseAtom == WithTrace(createAtom(uuid, "model_response", "",
                                                     turn.currentTurn, None),
                                          <<consciousAtom1, subconsciousAtom>>)
       IN  /\ graph' = Trained(after.graph, "conscious_thought", turn.consciousConcepts,
                               "subconscious_reflection", subconsciousConcepts)
           /\ isLoaded' = after.isLoaded
           /\ saveTimeout' = IF noop THEN saveTimeout ELSE TRUE
           /\ memory' = Append(memory, finalResponseAtom)
           /\ turn' = [pc |-> "stream", currentTurn |-> turn.currentTurn,
                       modelResponseId |-> finalResponseAtom.uuid, chunks |-> 0]
    /\ ret' = [op |-> "addAtom", before |-> memory]
    /\ UNCHANGED <<loadPending, stored, fibCache, calls, loadQueue, hookFibCache, clock, hookVars, appVars>>

\* a chunk of the response arrives: the response atom shows the text so far
StreamChunk ==
    /\ turn.pc = "stream"
    /\ turn.chunks < MaxChunks
    /\ memory' = [i \in DOMAIN memory |->
                     IF memory[i].uuid = turn.modelResponseId
                     THEN [memory[i] EXCEPT !.text = StreamText(turn.chunks + 1)]
                     ELSE memory[i]]
    /\ turn' = [turn EXCEPT !.chunks = @ + 1]
    /\ ret' = [op |-> "stream", before |-> memory, currentTurn |-> turn.currentTurn,
               modelResponseId |-> turn.modelResponseId]
    /\ UNCHANGED <<graph, isLoaded, loadPending, stored, saveTimeout, fibCache, calls,
                   loadQueue, hookFibCache, clock, hookVars, appVars>>

\* stopGeneration: sendMessage returns before the final state update
StopGeneration ==
    /\ turn.pc = "stream"
    /\ turn' = Idle
    /\ ret' = [op |-> "stopGeneration", before |-> memory]
    /\ UNCHANGED <<memory, graph, isLoaded, loadPending, stored, saveTimeout, fibCache,
                   calls, loadQueue, hookFibCache, clock, hookVars, appVars>>

\* the final state update: the response atom gets the whole text and its concepts
FinishTurn(responseConcepts, axiomConcepts) ==
    /\ turn.pc = "stream"
    /\ LET axiomAtom == {createAtom(TraceUuid(turn.modelResponseId, 3), "axiom", "x",
                                    turn.currentTurn, Some(c)) : c \in axiomConcepts}
       IN  memory' = PushAxiom(SetResponse(memory, turn.modelResponseId,
                                           StreamText(turn.chunks), Some(responseConcepts)),
                               turn.modelResponseId, axiomAtom)
    /\ turn' = Idle
    /\ ret' = [op |-> "finalUpdate", before |-> memory, currentTurn |-> turn.currentTurn,
               modelResponseId |-> turn.modelResponseId]
    /\ UNCHANGED <<graph, isLoaded, loadPending, stored, saveTimeout, fibCache, calls,
                   loadQueue, hookFibCache, clock, hookVars, appVars>>

\* addBackgroundInsight: a steward note is appended while the chat is idle
AddBackgroundInsight(insightConcepts) ==
    /\ turn.pc = "idle"
    /\ Len(memory) >= 2
    /\ InsightCount(memory) < MaxInsights
    /\ memory' = Append(memory, createAtom(Len(memory) + 1, "steward_note", "i",
                                           UserCount(memory), Some(insightConcepts)))
    /\ ret' = [op |-> "addBackgroundInsight", before |-> memory]
    /\ UNCHANGED <<graph, isLoaded, loadPending, stored, saveTimeout, fibCache, calls,
                   loadQueue, turn, hookFibCache, clock, hookVars, appVars>>

-----------------------------------------------------------------------------
(* useChat: the session in the session store *)

\* a SessionState: each of the three keys loadState looks at is there or not
SessionOf(messages) ==
    [messages |-> Some(messages), projectFiles |-> Some(<<>>), contextFileNames |-> Some(<<>>)]

\* a session file written by something else: an atom without activation fields
ImportedSessions ==
    {SessionOf(<<MakeAtom(1, "user_message", "m", Some(<<ca>>), None, None)>>)}

\* loadState(state): the log it sets and whether it set one
loadState(state, messages) ==
    IF state.messages # None /\ state.projectFiles # None /\ state.contextFileNames # None
    THEN LET stateMessages == OrElse(state.messages, <<>>)
         IN  [valid |-> TRUE,
              messages |->
                  [i \in DOMAIN stateMessages |->
                      [stateMessages[i] EXCEPT
                          !.activationScore = Some(OrElse(@, Rat(1, 1))),
                          !.lastActivatedTurn =
                              Some(OrElse(@, UserCount(SubSeq(stateMessages, 1, i))))]]]
    ELSE [valid |-> FALSE, messages |-> messages]

\* the save effect after a render: it returns while isHydrated is false, else
\* it replaces the pending timer by one that holds the session of the render
SaveEffect(hydrated, session, timer) ==
    IF ~hydrated THEN timer ELSE Some(SessionOf(session))

\* sessionService.loadSession() resolves: null if nothing is stored or the
\* read threw, and the .then callback of the load effect runs
LoadSessionDone(ok) ==
    /\ sessionLoad = "pending"
    /\ sessionLoad' = "done"
    /\ LET savedSession == IF ok THEN sessionStore ELSE None
           loaded == loadState(OrElse(savedSession, SessionOf(<<>>)), memory)
       IN  IF isHydrated
           THEN UNCHANGED <<memory, isHydrated, saveTimeoutRef>>
           ELSE IF savedSession # None
           THEN /\ memory' = loaded.messages
                /\ isHydrated' = loaded.valid
                /\ saveTimeoutRef' = SaveEffect(loaded.valid, loaded.messages,
                                                IF loaded.valid THEN None ELSE saveTimeoutRef)
           ELSE /\ isHydrated' = TRUE
                /\ saveTimeoutRef' = SaveEffect(TRUE, memory, saveTimeoutRef)
                /\ UNCHANGED memory
    /\ ret' = [op |-> "loadSession"]
    /\ UNCHANGED <<graph, isLoaded, loadPending, stored, saveTimeout, fibCache, calls,
                   loadQueue, turn, hookFibCache, clock, sessionStore, appVars>>

\* addAtom(atom): the session changes and the save effect runs
AddSessionAtom ==
    /\ Len(memory) < MaxSessionLength
    /\ memory' = Append(memory, createAtom(Len(memory) + 1, "user_message", "m",
                                           UserCount(memory) + 1, Some(<<ca>>)))
    /\ saveTimeoutRef' = SaveEffect(isHydrated, memory', saveTimeoutRef)
    /\ ret' = [op |-> "addAtom", before |-> memory]
    /\ UNCHANGED <<graph, isLoaded, loadPending, stored, saveTimeout, fibCache, calls,
                   loadQueue, turn, hookFibCache, clock, isHydrated, sessionStore,
                   sessionLoad, appVars>>

\* a session file is imported: chat.loadState(sessionState)
ImportSession(state) ==
    /\ LET loaded == loadState(state, memory)
       IN  /\ memory' = loaded.messages
           /\ isHydrated' = (isHydrated \/ loaded.valid)
           /\ saveTimeoutRef' = SaveEffect(isHydrated', loaded.messages,
                                           IF loaded.valid THEN None ELSE saveTimeoutRef)
    /\ ret' = [op |-> "loadState"]
    /\ UNCHANGED <<graph, isLoaded, loadPending, stored, saveTimeout, fibCache, calls,
                   loadQueue, turn, hookFibCache, clock, sessionStore, sessionLoad, appVars>>

\* the timer of the save effect fires: sessionService.saveSession(session),
\* whose set() may throw
SaveSessionTimer(ok) ==
    /\ saveTimeoutRef # None
    /\ sessionStore' = IF ok THEN saveTimeoutRef ELSE sessionStore
    /\ saveTimeoutRef' = None
    /\ ret' = [op |-> "saveSession"]
    /\ UNCHANGED <<memory, graph, isLoaded, loadPending, stored, saveTimeout, fibCache,
                   calls, loadQueue, turn, hookFibCache, clock, isHydrated, sessionLoad,
                   appVars>>

\* the page is loaded again: the hook starts from its initial state, the
\* session store is what it was
PageReload ==
    /\ memory' = <<>>
    /\ isHydrated' = FALSE
    /\ sessionLoad' = "pending"
    /\ saveTimeoutRef' = None
    /\ ret' = [op |-> "reload"]
    /\ UNCHANGED <<graph, isLoaded, loadPending, stored, saveTimeout, fibCache, calls,
                   loadQueue, turn, hookFibCache, clock, sessionStore, appVars>>

-----------------------------------------------------------------------------
(* App: the background cognition loop *)

\* what the effect of the loop leaves behind after a render: no interval
\* unless the key is ready, else one whose callback closed over the render's
\* chat.isLoading and chat.messages
CognitionEffect(key, loading, messages) ==
    IF key # "ready" THEN None ELSE Some([isLoading |-> loading, messages |-> messages])

\* the states the key validation can move to
NextKeyStates ==
    CASE keyState = "unknown" -> {"ready", "validating"}
      [] keyState = "validating" -> {"ready", "needs_selection", "error"}
      [] keyState = "needs_selection" -> {"ready"}
      [] OTHER -> {}

\* setKeyState(next) and the render after it
SetKeyState(next) ==
    /\ next \in NextKeyStates
    /\ keyState' = next
    /\ cognitionInterval' = CognitionEffect(next, isLoading, memory)
    /\ ret' = [op |-> "setKeyState"]
    /\ UNCHANGED <<memory, graph, isLoaded, loadPending, stored, saveTimeout, fibCache,
                   calls, loadQueue, turn, hookFibCache, clock, hookVars, isLoading,
                   isCognitionRunning, cyclesInFlight>>

\* handleSend on a click or a key press: sendMessage runs to its first await,
\* setIsLoading(true) is rendered and the effects of the render run before the
\* event returns, so the interval is replaced within the step
StartTurn ==
    /\ keyState = "ready"
    /\ ~isLoading
    /\ Len(memory) < MaxMessages
    /\ isLoading' = TRUE
    /\ cognitionInterval' = CognitionEffect(keyState, TRUE, memory)
    /\ ret' = [op |-> "sendMessage"]
    /\ UNCHANGED <<memory, graph, isLoaded, loadPending, stored, saveTimeout, fibCache,
                   calls, loadQueue, turn, hookFibCache, clock, hookVars, keyState,
                   isCognitionRunning, cyclesInFlight>>

\* addAtom of the turn, from a continuation of sendMessage: the render and
\* its effects come later
TurnAddAtom ==
    /\ isLoading
    /\ Len(memory) < MaxMessages
    /\ memory' = Append(memory, createAtom(Len(memory) + 1, "user_message", "m",
                                           UserCount(memory) + 1, Some(<<ca>>)))
    /\ ret' = [op |-> "addAtom", before |-> memory]
    /\ UNCHANGED <<graph, isLoaded, loadPending, stored, saveTimeout, fibCache, calls,
                   loadQueue, turn, hookFibCache, clock, hookVars, appVars>>

\* the finally block of sendMessage: setIsLoading(false)
EndTurn ==
    /\ isLoading
    /\ isLoading' = FALSE
    /\ ret' = [op |-> "endTurn"]
    /\ UNCHANGED <<memory, graph, isLoaded, loadPending, stored, saveTimeout, fibCache,
                   calls, loadQueue, turn, hookFibCache, clock, hookVars, keyState,
                   isCognitionRunning, cognitionInterval, cyclesInFlight>>

\* the render after a change made outside an event: the effect clears the
\* interval and sets one that closes over the current values
RunEffect ==
    /\ cognitionInterval # CognitionEffect(keyState, isLoading, memory)
    /\ cognitionInterval' = CognitionEffect(keyState, isLoading, memory)
    /\ ret' = [op |-> "effect"]
    /\ UNCHANGED <<memory, graph, isLoaded, loadPending, stored, saveTimeout, fibCache,
                   calls, loadQueue, turn, hookFibCache, clock, hookVars, keyState,
                   isLoading, isCognitionRunning, cyclesInFlight>>

\* an interval callback that does not look at isCognitionRunning
StartsCycle_IgnoresRunning(running, closure) ==
    ~closure.isLoading /\ Len(closure.messages) >= 2

\* the interval callback gets past its two early returns
StartsCycle(running, closure) ==
    /\ ~(running \/ closure.isLoading)
    /\ ~(Len(closure.messages) < 2)

\* a tick of the live interval
IntervalTick ==
    /\ cognitionInterval # None
    /\ Len(cyclesInFlight) < MaxCycles
    /\ LET closure == OrElse(cognitionInterval, [isLoading |-> FALSE, messages |-> <<>>])
           started == StartsCycle(isCognitionRunning, closure)
       IN  /\ isCognitionRunning' = (started \/ isCognitionRunning)
           /\ cyclesInFlight' = IF started
                                THEN Append(cyclesInFlight, [history |-> closure.messages])
                                ELSE cyclesInFlight
           /\ ret' = [op |-> IF started THEN "runCognitionCycle" ELSE "intervalSkipped"]
    /\ UNCHANGED <<memory, graph, isLoaded, loadPending, stored, saveTimeout, fibCache,
                   calls, loadQueue, turn, hookFibCache, clock, hookVars, keyState,
                   isLoading, cognitionInterval>>

\* runCognitionCycle returns or throws: an insight is only made from a
\* history of at least 4 atoms, and addBackgroundInsight adds its atom
CycleDone(found) ==
    /\ cyclesInFlight # <<>>
    /\ found => Len(memory) < MaxMessages
    /\ LET insight == found /\ ~(Len(Head(cyclesInFlight).history) < MIN_HISTORY)
       IN  memory' = IF insight
                     THEN Append(memory, createAtom(Len(memory) + 1, "steward_note", "i",
                                                    UserCount(memory), Some(<<>>)))
                     ELSE memory
    /\ isCognitionRunning' = FALSE
    /\ cyclesInFlight' = Tail(cyclesInFlight)
    /\ ret' = [op |-> "cycleDone"]
    /\ UNCHANGED <<graph, isLoaded, loadPending, stored, saveTimeout, fibCache, calls,
                   loadQueue, turn, hookFibCache, clock, hookVars, keyState, isLoading,
                   cognitionInterval>>

-----------------------------------------------------------------------------
(* Specifications *)

\* db.get is only reached while the graph is not loaded
LoadOutcomes == IF isLoaded THEN {TRUE} ELSE BOOLEAN

\* extractConcepts is only called for an atom without concepts
Extractions(atom) == IF atom.concepts = None THEN ExtractResults ELSE {<<>>}

NextRecall ==
    \/ \E tpl \in (IF HasFillers THEN RecentAtoms ELSE LiveAtoms) : AddAtom(tpl)
    \/ \E n \in PadSizes : AddFillers(n)
    \/ \E currentTurn \in 0..MaxTurn, ok \in LoadOutcomes : Recall(currentTurn, ok)

SpecRecall == InitRecall /\ [][NextRecall]_vars

NextSrg ==
    \/ \E ok \in BOOLEAN : ConstructorLoad(ok)
    \/ \E pair \in TrainPairs, ok \in LoadOutcomes :
           \E se \in Extractions(pair[1]), te \in Extractions(pair[2]) :
               TrainOnTransition(pair[1], pair[2], ok, se, te)
    \/ \E sourceAtoms \in AtomLists, topK \in 0..MaxK, ok \in LoadOutcomes :
           GetFollowUpConcepts(sourceAtoms, topK, ok)

SpecSrg == InitSrg /\ [][NextSrg]_vars

\* fibonacci called on the cache of either module
InitFib ==
    /\ InitService
    /\ memory = <<>>
    /\ stored = None

NextFib == \E n \in FibArgs : Fibonacci(n) \/ HookFibonacci(n)

SpecFib == InitFib /\ [][NextFib]_vars

\* the session of the chat hook and its store
InitSession ==
    /\ InitService
    /\ memory = <<>>
    /\ stored = None

NextSession ==
    \/ \E ok \in BOOLEAN : LoadSessionDone(ok)
    \/ AddSessionAtom
    \/ \E state \in ImportedSessions : ImportSession(state)
    \/ \E ok \in BOOLEAN : SaveSessionTimer(ok)
    \/ PageReload

SpecSession == InitSession /\ [][NextSession]_vars

\* the background cognition loop beside the turns of the chat
InitLoop ==
    /\ InitService
    /\ memory = <<>>
    /\ stored = None

NextLoop ==
    \/ \E next \in KeyStates : SetKeyState(next)
    \/ StartTurn
    \/ TurnAddAtom
    \/ EndTurn
    \/ RunEffect
    \/ IntervalTick
    \/ \E found \in BOOLEAN : CycleDone(found)

SpecLoop == InitLoop /\ [][NextLoop]_vars

\* the calls of the service together with the save timer's callback
NextStore ==
    /\ \/ \E ok \in BOOLEAN : ConstructorLoad(ok)
       \/ \E pair \in SavePairs, ok \in LoadOutcomes :
              TrainOnTransition(pair[1], pair[2], ok, <<>>, <<>>)
       \/ \E sourceAtoms \in StoreQueries, ok \in LoadOutcomes :
              GetFollowUpConcepts(sourceAtoms, MaxK, ok)
       \/ \E ok \in BOOLEAN : SaveTimer(ok) /\ UNCHANGED clock
    /\ TotalWeight(graph') <= MaxStoreWeight

SpecStore == InitSrg /\ [][NextStore]_vars

NextAsync ==
    \/ \E pair \in TrainPairs : StartTrain(pair[1], pair[2]) /\ UNCHANGED clock
    \/ \E ok \in BOOLEAN : LoadComplete(ok) /\ UNCHANGED clock
    \/ \E id \in DOMAIN calls, concepts \in ExtractResults :
           ExtractDone(id, concepts) /\ UNCHANGED clock
    \/ \E ok \in BOOLEAN : SaveTimer(ok) /\ UNCHANGED clock

SpecAsync == InitAsync /\ [][NextAsync]_vars

NextSave ==
    \/ \E pair \in SavePairs : TimedStartTrain(pair[1], pair[2])
    \/ \E ok \in BOOLEAN : TimedLoadComplete(ok)
    \/ \E ok \in BOOLEAN : TimedSaveTimer(ok)
    \/ Tick

SpecSave == InitAsync /\ [][NextSave]_vars

\* the event loop runs a timer that is due and a db.get that has returned;
\* whether further calls are made is up to the callers
SpecSaveFair ==
    /\ SpecSave
    /\ WF_vars(Tick)
    /\ WF_vars(\E ok \in BOOLEAN : TimedLoadComplete(ok))
    /\ WF_vars(\E ok \in BOOLEAN : TimedSaveTimer(ok))

InitDecay ==
    /\ InitService
    /\ memory = <<>>
    /\ stored = None

NextDecay == \E score \in Scores, t1 \in TurnsOld, t2 \in TurnsOld : t1 <= t2 /\ Decay(score, t1, t2)

SpecDecay == InitDecay /\ [][NextDecay]_vars

\* an empty session on a page whose graph has been loaded and is empty
InitChat ==
    /\ InitPage
    /\ memory = <<>>
    /\ graph = EmptyGraph
    /\ isLoaded = TRUE
    /\ loadPending = FALSE
    /\ stored = None
    /\ saveTimeout = FALSE
    /\ fibCache = EmptyMap
    /\ ret = NoCall
    /\ calls = <<>>
    /\ loadQueue = <<>>
    /\ turn = Idle
    /\ hookFibCache = EmptyMap

NextChat ==
    \/ SendMessage
    \/ \E userConcepts \in UserConcepts : AddUserAtom(userConcepts)
    \/ \E ok \in LoadOutcomes : RecallAndReactivate(ok)
    \/ \E ok \in LoadOutcomes : Conscious(<<cb>>, ok)
    \/ \E ok \in LoadOutcomes : Subconscious(<<cc>>, ok)
    \/ StreamChunk
    \/ StopGeneration
    \/ \E axiomConcepts \in {None, Some(<<ca>>)} : FinishTurn(<<cc>>, axiomConcepts)
    \/ AddBackgroundInsight(<<>>)

SpecChat == InitChat /\ [][NextChat]_vars

-----------------------------------------------------------------------------
(* Vocabulary of the properties *)

RecallReturned == ret.op = "recall"

\* positions of the log before the last 15
ArchivePositions(mem) == {i \in DOMAIN mem : i <= Len(mem) - 15}

\* positions of the last 15 atoms of the log
RecentPositions(mem) == {i \in DOMAIN mem : i > Len(mem) - 15}

RecentAtomList(mem) ==
    LET first == IF Len(mem) > 15 THEN Len(mem) - 14 ELSE 1
    IN  [k \in 1..(Len(mem) - first + 1) |-> mem[first + k - 1]]

\* the concepts of all atoms of the last 15 positions, as a set
RecentConceptSet(mem) ==
    {c \in UNION {Range(ConceptsOf(mem[i])) : i \in RecentPositions(mem)} : TRUE}

\* the top-10 follow-up concepts of the last 15 atoms on graph g, as a set
FollowUpSet(mem, g) == Range(getFollowUpConcepts(RecentAtomList(mem), 10, g))

Returned(result) == Range(result.memories) \cup Range(result.axioms)

PositionOf(mem, atom) == CHOOSE i \in DOMAIN mem : mem[i].uuid = atom.uuid

\* the scored entry of the atom with this uuid
ItemOf(scored, atom) == scored[CHOOSE k \in DOMAIN scored : scored[k].atom.uuid = atom.uuid]

\* entries of the concept list that are in the set: every occurrence counts
Occurrences(atom, set) ==
    Cardinality({i \in DOMAIN ConceptsOf(atom) : ConceptsOf(atom)[i] \in set})

\* concepts of the atom that are in the set: the concept list taken as a set
DistinctShared(atom, set) == Cardinality(Range(ConceptsOf(atom)) \cap set)

RECURSIVE FibSpec(_)
FibSpec(n) ==
    IF n <= 1 THEN 1
    ELSE FibSpec((IF n > 40 THEN 40 ELSE n) - 1) + FibSpec((IF n > 40 THEN 40 ELSE n) - 2)

\* decay(score, turnsOld) of the design: the score itself for turnsOld <= 0,
\* else max(0.01, score * (1 - 1 / fib(turnsOld + 2)))
DecaySpec(score, turnsOld) ==
    IF turnsOld <= 0 THEN score
    ELSE LET f == FibSpec(turnsOld + 2)
             d == <<score[1] * (f - 1), score[2] * f>>
         IN  IF d[1] * 100 < d[2] THEN <<1, 100>> ELSE d

\* the decayed activation of a log atom at currentTurn; an atom without the
\* fields counts as activationScore 1.0 and lastActivatedTurn 0
DecayOf(atom, currentTurn) ==
    DecaySpec(OrElse(atom.activationScore, <<1, 1>>),
              currentTurn - OrElse(atom.lastActivatedTurn, 0))

-----------------------------------------------------------------------------
(* Properties of recall, under SpecRecall *)

\* C1: a recall on a log of at most 15 atoms returns an empty memories list
\* and an empty axioms list, whatever the turn and the graph.
C1_ShortLogRecallsNothing ==
    (RecallReturned /\ Len(ret.memory) <= 15)
        => (ret.result.memories = <<>> /\ ret.result.axioms = <<>>)

\* a recall was made on a log of exactly 15 atoms whose first atom has
\* concepts in common with a later atom
C1_Witness ==
    /\ RecallReturned
    /\ Len(ret.memory) = 15
    /\ \E i \in 2..15 :
           Range(ConceptsOf(ret.memory[1])) \cap Range(ConceptsOf(ret.memory[i])) # {}
    /\ ret.result.memories = <<>>

\* C2: recall returns at most 5 memories and at most 3 axioms.
C2_AtMostFiveAndThree ==
    RecallReturned => (Len(ret.result.memories) <= 5 /\ Len(ret.result.axioms) <= 3)

\* a recall left out a sixth memory that scored above zero
C2_Witness ==
    /\ RecallReturned
    /\ Len(ret.result.memories) = 5
    /\ Cardinality({k \in DOMAIN ret.result.scoredMemories :
                       RatLess(RatZero, ret.result.scoredMemories[k].score)}) >= 6

\* a recall left out a fourth axiom that scored above zero
C2_WitnessAxioms ==
    /\ RecallReturned
    /\ Len(ret.result.axioms) = 3
    /\ Cardinality({k \in DOMAIN ret.result.scoredAxioms :
                       RatLess(RatZero, ret.result.scoredAxioms[k].score)}) >= 4

\* C3: every returned atom is an atom of the log before the last 15 positions
\* and is none of the last 15 atoms; memories are non-axioms, axioms are
\* axioms; no atom is in both lists and none is twice in a list.
C3_ReturnedFromArchive ==
    RecallReturned =>
        LET mem == ret.memory
            res == ret.result
        IN  /\ \A r \in Returned(res) :
                   /\ \E i \in ArchivePositions(mem) : mem[i] = r
                   /\ \A i \in RecentPositions(mem) : mem[i] # r
            /\ \A i \in DOMAIN res.memories : res.memories[i].type # "axiom"
            /\ \A i \in DOMAIN res.axioms : res.axioms[i].type = "axiom"
            /\ Range(res.memories) \cap Range(res.axioms) = {}
            /\ Cardinality(Range(res.memories)) = Len(res.memories)
            /\ Cardinality(Range(res.axioms)) = Len(res.axioms)

\* a recall returned memories and axioms while an atom of the last 15
\* shares a concept with the rest of the last 15
C3_Witness ==
    /\ RecallReturned
    /\ Len(ret.result.memories) >= 2
    /\ Len(ret.result.axioms) >= 1
    /\ \E i \in RecentPositions(ret.memory) :
           /\ ret.memory[i].type # "axiom"
           /\ Range(ConceptsOf(ret.memory[i])) # {}

\* the list is ordered by score descending, equal scores in log order, and
\* nothing of the pool that was left out scores above a returned atom; when
\* a scoring candidate was left out the list has k atoms
TopKOrdered(list, scored, mem, k) ==
    /\ \A i, j \in DOMAIN list :
           i < j =>
               /\ ~RatLess(ItemOf(scored, list[i]).score, ItemOf(scored, list[j]).score)
               /\ RatEq(ItemOf(scored, list[i]).score, ItemOf(scored, list[j]).score)
                      => PositionOf(mem, list[i]) < PositionOf(mem, list[j])
    /\ \A n \in DOMAIN scored :
           (\A i \in DOMAIN list : list[i].uuid # scored[n].atom.uuid)
               => /\ \A i \in DOMAIN list :
                         ~RatLess(ItemOf(scored, list[i]).score, scored[n].score)
                  /\ RatLess(RatZero, scored[n].score) => Len(list) = k

\* C4: each returned list is ordered by final score descending, atoms of equal
\* score keep their log order, and no left-out candidate of the pool scores
\* strictly higher than a returned one (top 5 memories, top 3 axioms).
C4_RankedTopK ==
    RecallReturned =>
        /\ TopKOrdered(ret.result.memories, ret.result.scoredMemories, ret.memory, 5)
        /\ TopKOrdered(ret.result.axioms, ret.result.scoredAxioms, ret.memory, 3)

\* a recall returned a list that is not in log order, holds two atoms of
\* equal score, and left out a scoring candidate
C4_Witness ==
    /\ RecallReturned
    /\ \E i, j \in DOMAIN ret.result.memories :
           /\ i < j
           /\ PositionOf(ret.memory, ret.result.memories[i])
                  > PositionOf(ret.memory, ret.result.memories[j])
    /\ \E i, j \in DOMAIN ret.result.memories :
           /\ i < j
           /\ RatEq(ItemOf(ret.result.scoredMemories, ret.result.memories[i]).score,
                    ItemOf(ret.result.scoredMemories, ret.result.memories[j]).score)
    /\ \E n \in DOMAIN ret.result.scoredMemories :
           /\ RatLess(RatZero, ret.result.scoredMemories[n].score)
           /\ \A i \in DOMAIN ret.result.memories :
                  ret.result.memories[i].uuid # ret.result.scoredMemories[n].atom.uuid

\* resonance times 1.1 for a subconscious reflection, times the decayed score
WeightedScore(atom, resonance, currentTurn) ==
    LET d == DecayOf(atom, currentTurn)
    IN  IF atom.type = "subconscious_reflection"
        THEN <<resonance * 11 * d[1], 10 * d[2]>>
        ELSE <<resonance * d[1], d[2]>>

\* the score recall ranked every non-axiom atom of the archive by is
\* (Count(atom, expanded) + 2 * Count(atom, followUps)), weighted and decayed,
\* where Count counts the atom's distinct concepts (asSet) or its list entries
MemoryScoresAre(asSet) ==
    LET mem == ret.memory
        followUps == FollowUpSet(mem, ret.graph)
        expanded == RecentConceptSet(mem) \cup followUps
        Count(atom, set) == IF asSet THEN DistinctShared(atom, set)
                            ELSE Occurrences(atom, set)
    IN  \A i \in ArchivePositions(mem) :
            mem[i].type # "axiom" =>
                /\ \E k \in DOMAIN ret.result.scoredMemories :
                       ret.result.scoredMemories[k].atom.uuid = mem[i].uuid
                /\ RatEq(ItemOf(ret.result.scoredMemories, mem[i]).score,
                         WeightedScore(mem[i],
                                       Count(mem[i], expanded) + 2 * Count(mem[i], followUps),
                                       ret.currentTurn))

\* C5 as stated: the ranking score of a non-axiom archive atom is (concepts in
\* expandedConcepts + 2 x concepts among the follow-ups), x 1.1 for a
\* subconscious reflection, x decay, with atom.concepts counted as a set.
C5_ScoreCountsConceptSet == RecallReturned => MemoryScoresAre(TRUE)

\* C5 amended: the same score, with every entry of the atom's concept list
\* counted, so that a concept listed twice counts twice.
C5_ScoreCountsOccurrences == RecallReturned => MemoryScoresAre(FALSE)

\* a recall returned a subconscious reflection that lists a follow-up concept
\* twice, and a decayed atom of another type that shares a recent concept
C5_Witness ==
    /\ RecallReturned
    /\ \E i \in DOMAIN ret.result.memories :
           LET atom == ret.result.memories[i]
           IN  /\ atom.type = "subconscious_reflection"
               /\ Occurrences(atom, FollowUpSet(ret.memory, ret.graph))
                      > DistinctShared(atom, FollowUpSet(ret.memory, ret.graph))
    /\ \E i \in DOMAIN ret.result.memories :
           LET atom == ret.result.memories[i]
           IN  /\ atom.type # "subconscious_reflection"
               /\ Occurrences(atom, RecentConceptSet(ret.memory)) > 0
               /\ ret.currentTurn > OrElse(atom.lastActivatedTurn, 0)

\* graphs that differ in the follow-up concepts they predict for the log
OtherGraphs ==
    {EmptyGraph, Snapshot1,
     Trained(EmptyGraph, "user_message", <<ca>>, "axiom", <<cb, cc>>),
     Trained(EmptyGraph, "subconscious_reflection", <<cc, cb>>, "axiom", <<ca>>)}

\* C6: the ranking score of an axiom of the archive is 2 x (entries of its
\* concept list that are among the concepts of the last 15 atoms) x decay,
\* without any follow-up contribution: the returned axioms are the same on
\* every graph.
C6_AxiomScoreIgnoresGraph ==
    RecallReturned =>
        LET mem == ret.memory
        IN  /\ \A i \in ArchivePositions(mem) :
                   mem[i].type = "axiom" =>
                       /\ \E k \in DOMAIN ret.result.scoredAxioms :
                              ret.result.scoredAxioms[k].atom.uuid = mem[i].uuid
                       /\ RatEq(ItemOf(ret.result.scoredAxioms, mem[i]).score,
                                LET d == DecayOf(mem[i], ret.currentTurn)
                                IN  <<2 * Occurrences(mem[i], RecentConceptSet(mem)) * d[1], d[2]>>)
            /\ \A g \in OtherGraphs :
                   recall(mem, ret.currentTurn, g, EmptyMap).axioms = ret.result.axioms

\* a recall returned an axiom one of whose concepts is a follow-up concept
\* that no atom of the last 15 has
C6_Witness ==
    /\ RecallReturned
    /\ \E i \in DOMAIN ret.result.axioms :
           /\ Occurrences(ret.result.axioms[i], FollowUpSet(ret.memory, ret.graph)) > 0
           /\ Occurrences(ret.result.axioms[i], RecentConceptSet(ret.memory)) > 0
           /\ ret.currentTurn > OrElse(ret.result.axioms[i].lastActivatedTurn, 0)

\* C7: recall returns no atom of zero resonance (a returned memory has a
\* concept among the expanded concepts, a returned axiom has one among the
\* concepts of the last 15 atoms), so no atom with a missing or empty concept
\* list; and it completes without an error whichever atoms lack concepts.
C7_NoZeroResonance ==
    RecallReturned =>
        LET mem == ret.memory
            expanded == RecentConceptSet(mem) \cup FollowUpSet(mem, ret.graph)
        IN  /\ ~ret.result.threw
            /\ \A i \in DOMAIN ret.result.memories :
                   /\ ret.result.memories[i].concepts # None
                   /\ Occurrences(ret.result.memories[i], expanded) > 0
            /\ \A i \in DOMAIN ret.result.axioms :
                   /\ ret.result.axioms[i].concepts # None
                   /\ Occurrences(ret.result.axioms[i], RecentConceptSet(mem)) > 0

\* a recall returned a memory while the archive held an atom without
\* concepts, one with an empty list and one with concepts but no resonance,
\* and the last 15 atoms held atoms without concepts
C7_Witness ==
    /\ RecallReturned
    /\ Len(ret.result.memories) > 0
    /\ Len(ret.result.memories) < 5
    /\ \E i \in ArchivePositions(ret.memory) : ret.memory[i].concepts = None
    /\ \E i \in ArchivePositions(ret.memory) : ret.memory[i].concepts = Some(<<>>)
    /\ \E i \in ArchivePositions(ret.memory) :
           /\ ret.memory[i].type # "axiom"
           /\ HasConcepts(ret.memory[i])
           /\ Occurrences(ret.memory[i],
                  RecentConceptSet(ret.memory) \cup FollowUpSet(ret.memory, ret.graph)) = 0
    /\ \E i \in RecentPositions(ret.memory) : ret.memory[i].concepts = None

\* C8: recall leaves the log as it was, and every atom it returns is the log
\* atom of that uuid with its stored activationScore and lastActivatedTurn.
C8_ReturnsCanonicalAtoms ==
    RecallReturned =>
        /\ memory = ret.memory
        /\ \A r \in Returned(ret.result) :
               \E i \in DOMAIN memory :
                   /\ memory[i].uuid = r.uuid
                   /\ memory[i].activationScore = r.activationScore
                   /\ memory[i].lastActivatedTurn = r.lastActivatedTurn
                   /\ memory[i] = r

\* a recall returned an atom whose scoring copy had decayed below the stored
\* score
C8_Witness ==
    /\ RecallReturned
    /\ \E i \in DOMAIN ret.result.memories :
           LET atom == ret.result.memories[i]
           IN  ~RatEq(OrElse(ItemOf(ret.result.scoredMemories, atom).atom.activationScore, <<1, 1>>),
                      OrElse(atom.activationScore, <<1, 1>>))

GetFollowUpReturned == ret.op = "getFollowUpConcepts"

\* the `${type}:${concept}` keys of the atoms, one per concept entry, in order
RECURSIVE SourceKeys(_)
SourceKeys(atoms) ==
    IF atoms = <<>> THEN <<>>
    ELSE [j \in DOMAIN ConceptsOf(Head(atoms)) |->
              Key(Head(atoms).type, ConceptsOf(Head(atoms))[j])]
         \o SourceKeys(Tail(atoms))

\* the same keys with every repetition after the first removed
RECURSIVE DistinctKeys(_, _)
DistinctKeys(seen, keys) ==
    IF keys = <<>> THEN <<>>
    ELSE IF Head(keys) \in seen THEN DistinctKeys(seen, Tail(keys))
    ELSE <<Head(keys)>> \o DistinctKeys(seen \cup {Head(keys)}, Tail(keys))

\* the target concepts of the keys' outgoing edges, in the order met
RECURSIVE EncounterSeq(_, _)
EncounterSeq(keys, g) ==
    IF keys = <<>> THEN <<>>
    ELSE (IF Head(keys) \in DOMAIN g
          THEN [t \in DOMAIN g[Head(keys)] |-> Tail(g[Head(keys)][t].key)]
          ELSE <<>>)
         \o EncounterSeq(Tail(keys), g)

FirstRank(concept, encountered) ==
    CHOOSE n \in DOMAIN encountered :
        /\ encountered[n] = concept
        /\ \A m \in 1..(n - 1) : encountered[m] # concept

\* the weight of the edges from the keys to the concept, under any target type
RECURSIVE EdgeWeightTo(_, _, _)
EdgeWeightTo(keys, g, concept) ==
    IF keys = <<>> THEN 0
    ELSE (IF Head(keys) \in DOMAIN g
          THEN SumWeights(SelectSeq(g[Head(keys)], LAMBDA e : Tail(e.key) = concept))
          ELSE 0)
         + EdgeWeightTo(Tail(keys), g, concept)

\* result is the first topK candidates by weight descending, ties in the
\* order first met, where the weight is summed over the given keys
IsTopFollowUps(result, atoms, topK, g, keys) ==
    LET encountered == EncounterSeq(SourceKeys(atoms), g)
        candidates == Range(encountered) \ OriginalConcepts(atoms)
        Weight(c) == EdgeWeightTo(keys, g, c)
        Before(a, b) == \/ Weight(a) > Weight(b)
                        \/ /\ Weight(a) = Weight(b)
                           /\ FirstRank(a, encountered) < FirstRank(b, encountered)
    IN  /\ Len(result) = Min(topK, Cardinality(candidates))
        /\ \A p \in DOMAIN result : result[p] \in candidates
        /\ \A p, q \in DOMAIN result : p < q => Before(result[p], result[q])
        /\ \A p \in DOMAIN result :
               \A c \in candidates \ Range(result) : Before(result[p], c)

\* C9: getFollowUpConcepts never returns a concept that is in the concept
\* list of one of the input atoms, whatever the graph, the atoms and K.
C9_NoOriginalConcept ==
    GetFollowUpReturned =>
        \A p \in DOMAIN ret.result :
            \A i \in DOMAIN ret.sourceAtoms :
                ret.result[p] \notin Range(ConceptsOf(ret.sourceAtoms[i]))

\* a call returned concepts although the edges of the input atoms also led
\* to a concept of an input atom
C9_Witness ==
    /\ GetFollowUpReturned
    /\ Len(ret.result) > 0
    /\ \E c \in OriginalConcepts(ret.sourceAtoms) :
           c \in Range(EncounterSeq(SourceKeys(ret.sourceAtoms), ret.graph))

\* C10 as stated: at most K concepts by aggregated weight descending, ties in
\* first-encountered order, the weight summed over the distinct
\* (category, concept) keys of the input atoms, each key counted once.
C10_WeightOverDistinctKeys ==
    GetFollowUpReturned =>
        IsTopFollowUps(ret.result, ret.sourceAtoms, ret.topK, ret.graph,
                       DistinctKeys({}, SourceKeys(ret.sourceAtoms)))

\* C10 amended: the same, the weight summed over every concept entry of every
\* input atom, so that a key that occurs n times counts n times.
C10_WeightOverOccurrences ==
    GetFollowUpReturned =>
        /\ Len(ret.result) <= ret.topK
        /\ IsTopFollowUps(ret.result, ret.sourceAtoms, ret.topK, ret.graph,
                          SourceKeys(ret.sourceAtoms))

\* a call returned two concepts in an order other than the one they were met
\* in, for atoms that share a key with an edge to a returned concept
C10_Witness ==
    /\ GetFollowUpReturned
    /\ Len(ret.result) >= 2
    /\ LET keys == SourceKeys(ret.sourceAtoms)
           encountered == EncounterSeq(keys, ret.graph)
       IN  /\ FirstRank(ret.result[1], encountered) > FirstRank(ret.result[2], encountered)
           /\ \E m, n \in DOMAIN keys :
                  /\ m < n
                  /\ keys[m] = keys[n]
                  /\ EdgeWeightTo(<<keys[m]>>, ret.graph, ret.result[1]) > 0

\* a call returned two concepts of equal aggregated weight and left out a
\* third candidate or none
C10_WitnessTie ==
    /\ GetFollowUpReturned
    /\ Len(ret.result) >= 2
    /\ EdgeWeightTo(SourceKeys(ret.sourceAtoms), ret.graph, ret.result[1])
           = EdgeWeightTo(SourceKeys(ret.sourceAtoms), ret.graph, ret.result[2])

-----------------------------------------------------------------------------
(* trainOnTransition *)

TrainReturned == ret.op = "trainOnTransition"

\* the weight of the edge from sourceKey to targetKey, 0 when there is none
EdgeWeight(g, sourceKey, targetKey) ==
    IF sourceKey \in DOMAIN g THEN WeightOf(g[sourceKey], targetKey) ELSE 0

Edges(g) == UNION {{<<sourceKey, g[sourceKey][i].key>> : i \in DOMAIN g[sourceKey]} :
                   sourceKey \in DOMAIN g}

\* the edges a call with these concept lists is to raise
TargetedEdges(sourceType, sourceConcepts, targetType, targetConcepts) ==
    {<<Key(sourceType, sc), Key(targetType, tc)>> :
        sc \in Range(sourceConcepts), tc \in Range(targetConcepts)}

TrainedSomething ==
    /\ TrainReturned
    /\ Len(ret.sourceConcepts) > 0
    /\ Len(ret.targetConcepts) > 0

\* C11: a trainOnTransition call with non-empty concept lists raises by
\* exactly 1 the weight of the edge from (source category, s) to (target
\* category, t) for every concept s of the source and t of the target, an
\* absent edge being created at weight 1, and leaves the weight of every
\* other edge of the graph as it was before the call.
C11_TrainRaisesByOne ==
    TrainedSomething =>
        LET targeted == TargetedEdges(ret.sourceType, ret.sourceConcepts,
                                      ret.targetType, ret.targetConcepts)
        IN  \A e \in Edges(ret.before) \cup targeted :
                EdgeWeight(graph, e[1], e[2])
                    = EdgeWeight(ret.before, e[1], e[2]) + (IF e \in targeted THEN 1 ELSE 0)

\* C12: a trainOnTransition call whose source or target has zero concepts
\* leaves the weight of every edge of the graph as it was before the call.
C12_NoConceptsNoChange ==
    (TrainReturned /\ ~TrainedSomething) =>
        \A e \in Edges(ret.before) :
            EdgeWeight(graph, e[1], e[2]) = EdgeWeight(ret.before, e[1], e[2])

-----------------------------------------------------------------------------
(* The graph over its lifetime *)

\* C13: over the lifetime of the graph, through any interleaving of training
\* calls, snapshot loads (late, or retried after a failed load) and debounced
\* saves, no edge weight of the in-memory graph decreases and no edge
\* disappears.
C13_WeightsNeverDecrease ==
    [][\A e \in Edges(graph) :
           EdgeWeight(graph', e[1], e[2]) >= EdgeWeight(graph, e[1], e[2])]_vars

AllDone == loadQueue = <<>> /\ \A id \in DOMAIN calls : calls[id].pc = "done"

\* the number of (source concept, target concept) pairs of the calls made
\* that raise the edge from sourceKey to targetKey
RECURSIVE Contributions(_, _, _)
Contributions(cs, sourceKey, targetKey) ==
    IF cs = <<>> THEN 0
    ELSE LET c == Head(cs)
             sourceConcepts == OrElse(c.sourceConcepts, <<>>)
             targetConcepts == OrElse(c.targetConcepts, <<>>)
         IN  Cardinality({p \in (DOMAIN sourceConcepts) \X (DOMAIN targetConcepts) :
                              /\ Key(c.sourceType, sourceConcepts[p[1]]) = sourceKey
                              /\ Key(c.targetType, targetConcepts[p[2]]) = targetKey})
             + Contributions(Tail(cs), sourceKey, targetKey)

AllEdges == Edges(graph) \cup Edges(Snapshot1)
            \cup UNION {TargetedEdges(calls[id].sourceType, OrElse(calls[id].sourceConcepts, <<>>),
                                      calls[id].targetType, OrElse(calls[id].targetConcepts, <<>>)) :
                        id \in DOMAIN calls}

\* every edge weighs what it weighed in base plus the calls' contributions
NothingLostOver(base) ==
    \A e \in AllEdges :
        EdgeWeight(graph, e[1], e[2])
            = EdgeWeight(base, e[1], e[2]) + Contributions(calls, e[1], e[2])

\* C20: when several trainOnTransition calls were in flight at once and none
\* of their loads failed, after all of them completed each edge weight equals
\* its weight before (in the graph in memory, or in the stored snapshot that
\* was loaded) plus the number of contributions of all the calls.
C20_NoLostIncrement ==
    (AllDone /\ Len(calls) >= 2 /\ \A id \in DOMAIN calls : ~calls[id].loadFailed) =>
        NothingLostOver(EmptyGraph) \/ NothingLostOver(Snapshot1)

-----------------------------------------------------------------------------
(* The decay of a score, under SpecDecay *)

DecayReturned == ret.op = "decay"

RatLeq(a, b) == ~RatLess(b, a)

\* C14 as stated: for a fixed score the decayed score is non-increasing in
\* the turns elapsed: decay(score, t2) <= decay(score, t1) for 0 <= t1 <= t2.
C14_NonIncreasingInTurns ==
    (DecayReturned /\ 0 <= ret.t1 /\ ret.t1 <= ret.t2) => RatLeq(ret.d2, ret.d1)

\* C14 amended: for a fixed score of at least 0.01, decay(score, t) is at
\* most decay(score, 0) = score for every t >= 0, and from one turn on it is
\* non-decreasing in the turns elapsed: decay(score, t1) <= decay(score, t2)
\* for 1 <= t1 <= t2.
C14_BelowScoreRisingWithTurns ==
    (DecayReturned /\ RatLeq(Rat(1, 100), ret.score) /\ 0 <= ret.t1 /\ ret.t1 <= ret.t2) =>
        /\ RatLeq(ret.d1, ret.score)
        /\ RatLeq(ret.d2, ret.score)
        /\ ret.t1 = 0 => RatEq(ret.d1, ret.score)
        /\ ret.t1 >= 1 => RatLeq(ret.d1, ret.d2)

\* a score was decayed at one turn and at a later one and came out higher at
\* the later one, below the score both times
C14_Witness ==
    /\ DecayReturned
    /\ 1 <= ret.t1
    /\ ret.t1 < ret.t2
    /\ RatLess(ret.d1, ret.d2)
    /\ RatLess(ret.d2, ret.score)

\* C15: for every score and every turnsOld the decayed score is at least
\* 0.01, also for a stored score that is zero or negative.
C15_NeverBelowFloor ==
    DecayReturned => RatLeq(Rat(1, 100), ret.d1) /\ RatLeq(Rat(1, 100), ret.d2)

\* C16: for every score and every turnsOld <= 0 the decayed score is the
\* score unchanged.
C16_UnchangedAtZeroTurns ==
    DecayReturned =>
        /\ ret.t1 <= 0 => ret.d1 = ret.score
        /\ ret.t2 <= 0 => ret.d2 = ret.score

\* a score other than 1.0 was handed to the decay at turnsOld -1 and 0, after
\* fibonacci values had been cached
C16_Witness ==
    /\ DecayReturned
    /\ ret.t1 < 0
    /\ ret.t2 = 0
    /\ ret.score = Rat(1, 2)
    /\ DOMAIN fibCache # {}

-----------------------------------------------------------------------------
(* The session log through the turns *)

ScoreOf(atom) == OrElse(atom.activationScore, Rat(1, 1))

DecayApplied == ret.op = "applyActivationDecay"

Reactivated == ret.op = "reactivateAtoms"

\* C17: from an empty session, through atom creation, the decay of each turn,
\* reactivation of recalled atoms and background insights, every atom of the
\* log has an activationScore within [0.01, 1.0], and the decay at the start
\* of a turn raises no atom's score.
C17_ScoresStayInRange ==
    /\ \A i \in DOMAIN memory :
          /\ memory[i].activationScore # None
          /\ RatLeq(Rat(1, 100), ScoreOf(memory[i]))
          /\ RatLeq(ScoreOf(memory[i]), Rat(1, 1))
    /\ DecayApplied =>
          /\ Len(memory) = Len(ret.before)
          /\ \A i \in DOMAIN memory : RatLeq(ScoreOf(memory[i]), ScoreOf(ret.before[i]))

\* a recalled atom that the decay of this turn had lowered is back at 1.0,
\* next to a background insight that stays lowered
C17_Witness ==
    /\ Reactivated
    /\ \E i \in DOMAIN memory :
          /\ memory[i].uuid \in ret.uuids
          /\ RatLess(ScoreOf(ret.before[i]), Rat(1, 1))
          /\ ScoreOf(memory[i]) = Rat(1, 1)
    /\ \E i \in DOMAIN memory :
          /\ memory[i].type = "steward_note"
          /\ RatLess(ScoreOf(memory[i]), Rat(1, 1))

\* the score the decay of the turn currentTurn leaves on an atom
DecayedAt(atom, currentTurn) ==
    decay(ScoreOf(atom), currentTurn - OrElse(atom.lastActivatedTurn, 0), EmptyMap).value

\* C18 as stated: the stored activationScore of an atom of the log is changed
\* only by reactivation, which sets it to 1.0; starting a turn and applying
\* the decay changes no stored score.
C18_OnlyReactivationChangesScore ==
    [][\A i \in DOMAIN memory :
          /\ i \in DOMAIN memory'
          /\ ScoreOf(memory'[i]) # ScoreOf(memory[i]) =>
                /\ ret'.op = "reactivateAtoms"
                /\ memory[i].uuid \in ret'.uuids
                /\ ScoreOf(memory'[i]) = Rat(1, 1)]_vars

\* C18: starting a turn rewrites the stored activationScore of every atom of
\* the log to decay(score, currentTurn - lastActivatedTurn), never to a higher
\* value; every other step leaves a stored score as it is, except the
\* reactivation of the recalled atoms, which sets theirs to 1.0 (the decay
\* inside recall works on copies and writes nothing back).
C18_ScoreChangedByTurnDecayOrReactivation ==
    [][\A i \in DOMAIN memory :
          /\ i \in DOMAIN memory'
          /\ IF ret'.op = "applyActivationDecay"
             THEN /\ RatEq(ScoreOf(memory'[i]), DecayedAt(memory[i], ret'.currentTurn))
                  /\ RatLeq(ScoreOf(memory'[i]), ScoreOf(memory[i]))
             ELSE IF ret'.op = "reactivateAtoms" /\ memory[i].uuid \in ret'.uuids
             THEN ScoreOf(memory'[i]) = Rat(1, 1)
             ELSE ScoreOf(memory'[i]) = ScoreOf(memory[i])]_vars

\* the second turn has started and the stored score of an atom of the first
\* turn is lower than it was
C18_Witness ==
    /\ DecayApplied
    /\ ret.currentTurn = 2
    /\ \E i \in DOMAIN memory :
          /\ memory[i].type = "user_message"
          /\ RatLess(ScoreOf(memory[i]), ScoreOf(ret.before[i]))

\* the atom at position i of the log is the response atom of the turn in progress
IsStreamingResponse(i) ==
    /\ turn.pc = "stream"
    /\ memory[i].uuid = turn.modelResponseId
    /\ memory[i].type = "model_response"

\* C19 as stated: once an atom is in the log, its text and its concept list
\* never change, through any later step of the turn pipeline.
C19_TextAndConceptsFrozen ==
    [][\A i \in DOMAIN memory :
          /\ i \in DOMAIN memory'
          /\ memory'[i].text = memory[i].text
          /\ memory'[i].concepts = memory[i].concepts]_vars

\* C19: once an atom is in the log, its text and its concept list never
\* change, except on the model_response atom of the turn in progress: its text
\* is replaced as the response streams, and the final state update of the turn
\* sets its text and its concept list.
C19_FrozenExceptStreamingResponse ==
    [][\A i \in DOMAIN memory :
          /\ i \in DOMAIN memory'
          /\ memory'[i].text # memory[i].text =>
                /\ IsStreamingResponse(i)
                /\ ret'.op \in {"stream", "finalUpdate"}
          /\ memory'[i].concepts # memory[i].concepts =>
                /\ IsStreamingResponse(i)
                /\ ret'.op = "finalUpdate"]_vars

\* the final state update of the second turn gave the response atom its
\* concepts, and the response of the first turn, with another text, is as it was
C19_Witness ==
    /\ ret.op = "finalUpdate"
    /\ ret.currentTurn = 2
    /\ \E i, j \in DOMAIN memory :
          /\ i < j
          /\ memory[i].type = "model_response"
          /\ memory[j].uuid = ret.modelResponseId
          /\ memory[i].text # memory[j].text
          /\ memory[i] = ret.before[i]
          /\ ret.before[j].concepts = None
          /\ memory[j].concepts # None

-----------------------------------------------------------------------------
(* The debounced save, under SpecSave *)

\* at least two calls were made, each less than the debounce delay after the
\* one before
Burst ==
    /\ Len(clock.callsAt) >= 2
    /\ \A i \in 1..(Len(clock.callsAt) - 1) :
          clock.callsAt[i + 1] - clock.callsAt[i] < DEBOUNCE_TICKS

\* every call has ended, no load is in flight and no save timer is pending
Quiet == AllDone /\ clock.timers = <<>>

\* g holds, over what the graph started from, every increment of the calls made
HoldsAllIncrements(g) ==
    \E base \in {EmptyGraph, Snapshot1} :
        \A e \in AllEdges \cup Edges(g) :
            EdgeWeight(g, e[1], e[2])
                = EdgeWeight(base, e[1], e[2]) + Contributions(calls, e[1], e[2])

\* C21: when trainOnTransition is called several times with less than the
\* debounce delay between consecutive calls, exactly one write is issued for
\* the burst, after the last call, and it writes a graph that holds all
\* increments of the burst; at most one save timer is pending at any time.
C21_OneWriteForBurst ==
    /\ Len(clock.timers) <= 1
    /\ (Burst /\ Quiet) =>
          /\ Len(clock.writes) = 1
          /\ clock.writes[1].at >= clock.callsAt[Len(clock.callsAt)]
          /\ HoldsAllIncrements(clock.writes[1].graph)

\* every db.put made so far succeeded
WritesSucceeded == \A i \in DOMAIN clock.writes : clock.writes[i].ok

\* the stored snapshot is the graph in memory and holds every increment of
\* the calls made
Durable == stored = Some(graph) /\ HoldsAllIncrements(graph)

\* C22: if the training calls stop and the persistence writes succeed, then
\* eventually the persisted snapshot equals the in-memory graph and every
\* increment made by a completed trainOnTransition is durable.
C22_EventuallyDurable ==
    <>[](Quiet /\ ((WritesSucceeded /\ clock.savesAt # <<>>) => Durable))

\* C23 as stated: at any moment the training updates in memory and not in the
\* persisted snapshot were all made within the last coalescing window of
\* 1 second, however the calls are spaced.
C23_UnsavedWithinWindow ==
    \A i \in DOMAIN clock.unsaved : clock.now - clock.unsaved[i] <= DEBOUNCE_TICKS

\* the last db.put failed, at or after the unsaved trainings
LastWriteFailed ==
    /\ clock.writes # <<>>
    /\ ~clock.writes[Len(clock.writes)].ok
    /\ clock.timers = <<>>

\* a flush is pending, due 1 second after the most recent unsaved training
FlushPending ==
    /\ clock.timers # <<>>
    /\ clock.timers[Len(clock.timers)]
          = clock.unsaved[Len(clock.unsaved)] + DEBOUNCE_TICKS
    /\ clock.now <= clock.timers[Len(clock.timers)]

\* C23 as the code has it: whenever training updates are in memory and not in
\* the persisted snapshot, a flush is pending that is due 1 second after the
\* most recent of them, unless the last write failed; each training less than
\* 1 second after the previous one extends the window.
C23_UnsavedUntilFlushAfterLastTraining ==
    clock.unsaved # <<>> => (FlushPending \/ LastWriteFailed)

\* two trainings half a second apart, the first still unsaved more than
\* 1 second later
C23_Witness ==
    /\ Len(clock.unsaved) >= 2
    /\ clock.now - clock.unsaved[1] > DEBOUNCE_TICKS
    /\ FlushPending
    /\ stored # Some(graph)

-----------------------------------------------------------------------------
(* Persistence failures, under SpecStore *)

\* isLoaded is still false after a step that awaited loadGraph: db.get threw
LoadFailedIn(op) == ret'.op = op /\ ~isLoaded'

\* C24: a failure of the snapshot read or write is not propagated:
\* trainOnTransition and getFollowUpConcepts complete and operate on the graph
\* currently in memory (the empty graph on a cold start), and a failed write
\* leaves the in-memory graph unchanged.
C24_FailuresNotPropagated ==
    [][/\ ret'.op = "saveGraph" => graph' = graph
       /\ LoadFailedIn("loadGraph") => graph' = graph
       /\ LoadFailedIn("trainOnTransition") =>
              graph' = Trained(graph, ret'.sourceType, ret'.sourceConcepts,
                               ret'.targetType, ret'.targetConcepts)
       /\ LoadFailedIn("getFollowUpConcepts") =>
              /\ graph' = graph
              /\ ret'.result = getFollowUpConcepts(ret'.sourceAtoms, ret'.topK, graph)
      ]_vars

\* a training completed on the empty graph of a cold start although a
\* snapshot was stored: its read failed
C24_Witness ==
    /\ ret.op = "trainOnTransition"
    /\ ~isLoaded
    /\ ret.before = EmptyGraph
    /\ graph # EmptyGraph
    /\ stored # None

-----------------------------------------------------------------------------
(* Reads of the graph, under SpecSrg *)

\* C25: getFollowUpConcepts is read-only on the graph: every edge in memory
\* before the call has the same weight after it, also when the call runs
\* before the snapshot load has succeeded.
C25_GetFollowUpReadOnly ==
    [][ret'.op = "getFollowUpConcepts" =>
           \A e \in Edges(graph) :
               EdgeWeight(graph', e[1], e[2]) = EdgeWeight(graph, e[1], e[2])]_vars

-----------------------------------------------------------------------------
(* Reactivation within a turn, under SpecChat *)

\* the atom was in the log when the turn in progress started
InLogBeforeTurn(atom) ==
    \E j \in DOMAIN turn.messages : turn.messages[j].uuid = atom.uuid

\* C26: in a turn, of the atoms that were in the log before it, exactly those
\* that recall returned end the turn with activationScore 1.0 and
\* lastActivatedTurn equal to the current turn: the decay runs before the
\* reset and no later step of the turn touches either field. For every other
\* atom lastActivatedTurn is unchanged, in the turn and outside it.
C26_ExactlyRecalledAtomsReset ==
    [][\A i \in DOMAIN memory :
          /\ i \in DOMAIN memory'
          /\ IF ret'.op = "reactivateAtoms"
             THEN IF memory[i].uuid \in ret'.uuids
                  THEN /\ memory'[i].activationScore = Some(Rat(1, 1))
                       /\ memory'[i].lastActivatedTurn = Some(ret'.currentTurn)
                       /\ InLogBeforeTurn(memory[i])
                  ELSE /\ memory'[i].lastActivatedTurn = memory[i].lastActivatedTurn
                       /\ memory'[i].activationScore = memory[i].activationScore
                       /\ InLogBeforeTurn(memory[i]) =>
                              memory[i].lastActivatedTurn # Some(ret'.currentTurn)
             ELSE /\ memory'[i].lastActivatedTurn = memory[i].lastActivatedTurn
                  /\ turn.pc # "idle" =>
                         memory'[i].activationScore = memory[i].activationScore]_vars

\* the second turn has ended; an atom of the first turn was recalled and
\* carries the turn and the score 1.0, another was not and keeps its turn and
\* its decayed score
C26_Witness ==
    /\ ret.op = "finalUpdate"
    /\ ret.currentTurn = 2
    /\ \E i \in DOMAIN memory :
          /\ memory[i].uuid # ret.modelResponseId
          /\ memory[i].type \in {"user_message", "model_response"}
          /\ \E k \in DOMAIN memory :
                i < k /\ memory[k].type = "user_message"
          /\ memory[i].lastActivatedTurn = Some(2)
          /\ memory[i].activationScore = Some(Rat(1, 1))
    /\ \E i \in DOMAIN memory :
          /\ memory[i].lastActivatedTurn = Some(1)
          /\ RatLess(ScoreOf(memory[i]), Rat(1, 1))

-----------------------------------------------------------------------------
(* fibonacci, under SpecFib *)

\* the pair <<F(k), F(k - 1)>> of the sequence 1, 1, 2, 3, 5, ... by iteration
RECURSIVE FibPair(_)
FibPair(k) ==
    IF k <= 1 THEN <<1, 1>>
    ELSE CHOOSE p \in {<<q[1] + q[2], q[1]>> : q \in {FibPair(k - 1)}} : TRUE

\* fib(n) of the design: the sequence up to 40, its 40th value beyond
FibValue(n) == FibPair(IF n > 40 THEN 40 ELSE n)[1]

\* C27: fib(n) equals fib(40) for every n > 40 and fib(n) >= 1 for every n,
\* whatever calls were made before: the memo cache never changes a returned
\* value, so 1 / fib(turnsOld + 2) never divides by zero.
C27_FibCappedAndPositive ==
    /\ ret.op = "fibonacci" =>
          /\ ret.value >= 1
          /\ ret.value = FibValue(ret.n)
          /\ ret.n > 40 => ret.value = FibValue(40)
    /\ \A k \in DOMAIN fibCache : fibCache[k] = FibValue(k) /\ k <= 40
    /\ \A k \in DOMAIN hookFibCache : hookFibCache[k] = FibValue(k) /\ k <= 40

\* fib of an argument beyond 40 was answered from a cache filled by earlier
\* calls
C27_Witness ==
    /\ ret.op = "fibonacci"
    /\ ret.n > 40
    /\ ret.value = 165580141
    /\ 3 \in DOMAIN fibCache
    /\ 40 \in DOMAIN hookFibCache

-----------------------------------------------------------------------------
(* The categories of the log, under SpecChat *)

\* C28: in a session built from empty through sendMessage turns and
\* background insights, every atom of the top-level log is a user_message, a
\* model_response or a steward_note; conscious thoughts, subconscious
\* reflections and axioms are only in a response's cognitive trace; so the
\* recall made by sendMessage returns no axioms.
C28_LogCategories ==
    /\ \A i \in DOMAIN memory :
          /\ memory[i].type \in {"user_message", "model_response", "steward_note"}
          /\ TraceOf(memory[i]) # <<>> => memory[i].type = "model_response"
          /\ \A k \in DOMAIN TraceOf(memory[i]) :
                TraceOf(memory[i])[k].type
                    \in {"conscious_thought", "subconscious_reflection", "axiom"}
    /\ Reactivated => ret.axioms = <<>>

\* recall returned memories and no axiom from a log in which a response
\* carries an axiom in its trace
C28_Witness ==
    /\ Reactivated
    /\ ret.uuids # {}
    /\ ret.axioms = <<>>
    /\ \E i \in DOMAIN memory : \E k \in DOMAIN TraceOf(memory[i]) :
          TraceOf(memory[i])[k].type = "axiom"

-----------------------------------------------------------------------------
(* Hydration of the session, under SpecSession *)

\* the session nothing was added to
EmptySession == SessionOf(<<>>)

\* C29: the session is never written to the session store before hydration
\* has finished: no saveSession call happens while isHydrated is false, so
\* the initial empty session does not overwrite a stored session; and once
\* the stored session has been read, hydration has finished.
C29_NoSaveBeforeHydration ==
    [][/\ ret'.op = "saveSession" => isHydrated
       /\ (sessionStore # None /\ sessionStore' # sessionStore) =>
              sessionStore' # Some(EmptySession)
       /\ ret'.op = "loadSession" => isHydrated']_vars

-----------------------------------------------------------------------------
(* The background cognition loop, under SpecLoop *)

\* a runCognitionCycle call is made in this step
CycleStarts == Len(cyclesInFlight') > Len(cyclesInFlight)

=============================================================================
